---- MODULE Spec2Model ----
(***************************************************************************)
(* A model of hiqp::Task (src/hiqp_core/src/task.cpp) and of the SDF        *)
(* collision-avoidance task definition                                      *)
(* (src/hiqp_core/src/tasks/task_avoid_collisions_sdf.cpp).                 *)
(*                                                                          *)
(* One Task object is modelled: its attributes, the two owned sub-objects   *)
(* def_ and dyn_, and a record `last` describing the most recent call       *)
(* (its arguments, its return code, how it ended, the sub-calls it made     *)
(* and whether def_ and dyn_ are still the objects, in the state, that the  *)
(* Task held when the call started).                                        *)
(***************************************************************************)
EXTENDS Integers, Sequences, FiniteSets, TLC

VARIABLES task_name_, priority_, active_, visible_,   \* Task attributes
          def_, dyn_,                                 \* owned sub-objects
          last,                                       \* the most recent call
          ever_ok,                                    \* some init returned 0
          linked,       \* the definition of TaskAvoidCollisionsSDF in the build
          point, box,   \* a GeometricPoint and a GeometricBox
          pc,               \* where each thread is in the TaskManager
          resource_mutex_,  \* the thread that holds the TaskManager's mutex
          task_manager_h,   \* the task_manager.h the build uses
          task_map_,        \* the TaskManager's registry of tasks
          solver_           \* the hierarchical solver

prim_vars == <<point, box>>

mgr_vars == <<pc, resource_mutex_, task_manager_h>>

reg_vars == <<task_map_, solver_>>

vars == <<task_name_, priority_, active_, visible_, def_, dyn_, last, ever_ok,
          linked, point, box, pc, resource_mutex_, task_manager_h,
          task_map_, solver_>>

----------------------------------------------------------------------------
(* Bounds *)

NumJoints == 2      \* robot_state->getNumJoints()
MaxDim == 2         \* largest dimension of a task definition outside src/
MaxPrims == 2       \* most primitive names in a TDefAvoidCollisionsSDF list
MaxParams == 11     \* longest parameter vector given to a primitive's init

Joints == 1..NumJoints

----------------------------------------------------------------------------
(* The parameter protocol: type tokens and the inputs drawn from them *)

\* tokens the dispatch of constructDefinition compares against
DefTypeTokens == {"TDefFullPose", "TDefJntConfig", "TDefAvoidCollisionsSDF",
                  "TDefJntLimits", "TDefGeomProj", "TDefGeomAlign"}

\* tokens the dispatch of constructDynamics compares against
DynTypeTokens == {"TDynFirstOrder", "TDynJntLimits", "TDynMinJerk"}

\* first tokens that are no definition type name: wrong case, a suffix, a
\* prefix, a dynamics name
DefOtherTokens == {"tdeffullpose", "TDefFullPoseX", "TDefFull", "TDynFirstOrder"}

\* first tokens that are no dynamics type name dispatched on
DynOtherTokens == {"tdynfirstorder", "TDynFirstOrderX", "TDynConstant", "TDefFullPose"}

PrimTypeTokens == {"point", "line", "plane", "box", "cylinder", "sphere",
                   "frame", "Point"}

\* the geometric primitive registry the definitions resolve names in:
\* type of the primitive and whether its frame is a link of the kinematic tree
GeometricPrimitiveMap ==
  ("p1" :> [type |-> "point", attached |-> TRUE]) @@
  ("s1" :> [type |-> "sphere", attached |-> TRUE]) @@
  ("b1" :> [type |-> "box", attached |-> TRUE]) @@
  ("pfar" :> [type |-> "point", attached |-> FALSE])

\* names used in parameter lists; "nope" is in no registry
PrimNames == DOMAIN GeometricPrimitiveMap \cup {"nope"}

SeqsUpTo(S, n) == UNION {[1..k -> S] : k \in 0..n}

\* the argument lists of the calls of init on a Task in use: one list for
\* each way init can go
DefParamsInputs ==
  {<< >>, <<"TDefFullPose">>, <<"tdeffullpose">>, <<"TDefGeomProj">>,
   <<"TDefGeomAlign", "point", "line">>,
   <<"TDefAvoidCollisionsSDF", "p1">>, <<"TDefAvoidCollisionsSDF", "p1", "s1">>,
   <<"TDefAvoidCollisionsSDF", "p1", "nope">>}

DynParamsInputs ==
  {<< >>, <<"TDynFirstOrder", "1.0">>, <<"TDynConstant", "1.0">>}

\* the argument lists of the first call of init on a new Task: every
\* combination of the tokens
AllDefParamsInputs ==
  {<< >>}
  \cup {<<t>> : t \in DefTypeTokens \cup DefOtherTokens}
  \cup {<<t, a>> : t \in {"TDefGeomProj", "TDefGeomAlign"}, a \in PrimTypeTokens}
  \cup {<<t, a, b>> : t \in {"TDefGeomProj", "TDefGeomAlign"},
                      a \in PrimTypeTokens, b \in PrimTypeTokens}
  \cup {<<"TDefAvoidCollisionsSDF">> \o s : s \in SeqsUpTo(PrimNames, MaxPrims)}

AllDynParamsInputs ==
  {<< >>} \cup {<<t, "1.0">> : t \in DynTypeTokens \cup DynOtherTokens}

\* robot_state->isQNrWritable(i): every joint writable, or the first one not
WritableInputs == {[j \in Joints |-> TRUE], [j \in Joints |-> j /= 1]}

\* what the code outside src/ answers during one init: the definition's init
\* fails, or it succeeds at dimension dim and the dynamics' init succeeds, or
\* the dynamics' init fails
InitAnswers ==
  {[defOk |-> FALSE, dim |-> 1, dynOk |-> FALSE]}
  \cup {[defOk |-> TRUE, dim |-> d, dynOk |-> TRUE] : d \in 1..MaxDim}
  \cup {[defOk |-> TRUE, dim |-> 1, dynOk |-> FALSE]}

\* what it answers during one update
UpdateAnswers ==
  {[defOk |-> FALSE, dynOk |-> FALSE], [defOk |-> TRUE, dynOk |-> FALSE],
   [defOk |-> TRUE, dynOk |-> TRUE]}

----------------------------------------------------------------------------
(* Objects *)

\* an empty shared_ptr
NoObj == [class |-> "nullptr"]

\* std::make_shared<T>(...): a new object; vectors and matrices start empty
NewObject(class, pair) ==
  [class |-> class, pair |-> pair,
   task_name_ |-> "", priority_ |-> 0, active_ |-> FALSE, visible_ |-> FALSE,
   e_ |-> << >>, J_ |-> << >>, J_cols |-> 0, task_types_ |-> << >>,
   e_dot_star_ |-> << >>,
   primitives_ |-> << >>, n_dimensions_ |-> 0, fk_solver_ |-> FALSE,
   collision_checker_ |-> << >>]

\* TaskAvoidCollisionsSDF::TaskAvoidCollisionsSDF: the object makes a collision
\* checker of its own and calls init() and activate() on it;
\* collision_checker_ is the sequence of the lifecycle calls made on it
TaskAvoidCollisionsSDF_ctor ==
  [NewObject("TaskAvoidCollisionsSDF", << >>)
     EXCEPT !.collision_checker_ = <<"init", "activate">>]

\* a destructor that leaves the checker alone
TaskAvoidCollisionsSDF_dtor_leak(def) == def

\* TaskAvoidCollisionsSDF::~TaskAvoidCollisionsSDF: deactivate() on the checker
TaskAvoidCollisionsSDF_dtor(def) ==
  [def EXCEPT !.collision_checker_ = Append(@, "deactivate")]

\* what happens to the object a shared_ptr of the Task held when the pointer
\* is assigned a new object or the Task is destroyed: the Task is its only
\* owner, so the object is destroyed; the result is the object as its
\* destructor left it
release(obj) ==
  IF obj.class = "TaskAvoidCollisionsSDF" THEN TaskAvoidCollisionsSDF_dtor(obj)
  ELSE obj

----------------------------------------------------------------------------
(* Task::constructDefinition and Task::constructDynamics *)

\* the size test written with < in place of <=
EmptyParams_strict(params) == Len(params) < 0

\* def_params.size() <= 0
EmptyParams(params) == Len(params) <= 0

\* the primitive-type pairs TaskGeometricProjection is instantiated for
ProjectionPairs ==
  {<<"point", "point">>, <<"point", "line">>, <<"point", "plane">>,
   <<"point", "box">>, <<"point", "cylinder">>, <<"point", "sphere">>,
   <<"line", "line">>, <<"sphere", "plane">>, <<"sphere", "sphere">>,
   <<"frame", "frame">>}

\* the primitive-type pairs TaskGeometricAlignment is instantiated for
AlignmentPairs ==
  {<<"line", "line">>, <<"line", "plane">>, <<"line", "cylinder">>,
   <<"line", "sphere">>, <<"frame", "frame">>}

\* result of a construct call: rc is its return value, thrown tells that
\* std::vector::at threw std::out_of_range instead, obj is the pointer after
\* the call and new tells that it was assigned a new object
Constructed(obj) == [rc |-> 0, thrown |-> FALSE, obj |-> obj, new |-> TRUE]
NotConstructed(old) == [rc |-> -1, thrown |-> FALSE, obj |-> old, new |-> FALSE]
OutOfRange(old) == [rc |-> 0, thrown |-> TRUE, obj |-> old, new |-> FALSE]

\* a dispatch that takes the two primitive types in either order
constructPair_symmetric(class, pairs, def_params, old) ==
  IF Len(def_params) < 3 THEN OutOfRange(old)
  ELSE LET pair == <<def_params[2], def_params[3]>> IN
       IF pair \in pairs \/ <<pair[2], pair[1]>> \in pairs
       THEN Constructed(NewObject(class, pair))
       ELSE NotConstructed(old)

\* the branch of a TDefGeomProj / TDefGeomAlign token: reads def_params.at(1)
\* and def_params.at(2) before looking at the pair
constructPair(class, pairs, def_params, old) ==
  IF Len(def_params) < 3 THEN OutOfRange(old)
  ELSE LET pair == <<def_params[2], def_params[3]>> IN
       IF pair \in pairs THEN Constructed(NewObject(class, pair))
       ELSE NotConstructed(old)

\* a dispatch that keeps the object the Task holds when it has the class
\* asked for, in place of making a new one
constructDefinition_patch(def_params, old) ==
  IF Len(def_params) < 1 THEN OutOfRange(old)
  ELSE LET class == IF def_params[1] = "TDefFullPose" THEN "TaskFullPose"
                    ELSE IF def_params[1] = "TDefAvoidCollisionsSDF"
                      THEN "TaskAvoidCollisionsSDF"
                    ELSE "none"
       IN IF class = "none" THEN NotConstructed(old)
          ELSE IF old /= NoObj /\ old.class = class
            THEN [rc |-> 0, thrown |-> FALSE, obj |-> old, new |-> FALSE]
          ELSE IF class = "TaskFullPose"
            THEN Constructed(NewObject("TaskFullPose", << >>))
          ELSE Constructed(TaskAvoidCollisionsSDF_ctor)

constructDefinition(def_params, old) ==
  IF Len(def_params) < 1 THEN OutOfRange(old)
  ELSE LET type == def_params[1] IN
    IF type = "TDefFullPose" THEN Constructed(NewObject("TaskFullPose", << >>))
    ELSE IF type = "TDefJntConfig" THEN Constructed(NewObject("TaskJntConfig", << >>))
    ELSE IF type = "TDefAvoidCollisionsSDF"
      THEN Constructed(TaskAvoidCollisionsSDF_ctor)
    ELSE IF type = "TDefJntLimits" THEN Constructed(NewObject("TaskJntLimits", << >>))
    ELSE IF type = "TDefGeomProj"
      THEN constructPair("TaskGeometricProjection", ProjectionPairs, def_params, old)
    ELSE IF type = "TDefGeomAlign"
      THEN constructPair("TaskGeometricAlignment", AlignmentPairs, def_params, old)
    ELSE NotConstructed(old)

\* a dispatch whose last branch falls back to first-order dynamics
constructDynamics_fallback(dyn_params, old) ==
  IF Len(dyn_params) < 1 THEN OutOfRange(old)
  ELSE LET type == dyn_params[1] IN
    IF type = "TDynJntLimits" THEN Constructed(NewObject("DynamicsJntLimits", << >>))
    ELSE IF type = "TDynMinJerk" THEN Constructed(NewObject("DynamicsMinimalJerk", << >>))
    ELSE Constructed(NewObject("DynamicsFirstOrder", << >>))

constructDynamics(dyn_params, old) ==
  IF Len(dyn_params) < 1 THEN OutOfRange(old)
  ELSE LET type == dyn_params[1] IN
    IF type = "TDynFirstOrder" THEN Constructed(NewObject("DynamicsFirstOrder", << >>))
    ELSE IF type = "TDynJntLimits" THEN Constructed(NewObject("DynamicsJntLimits", << >>))
    ELSE IF type = "TDynMinJerk" THEN Constructed(NewObject("DynamicsMinimalJerk", << >>))
    ELSE NotConstructed(old)

----------------------------------------------------------------------------
(* TaskAvoidCollisionsSDF *)

\* a lookup that returns the primitive of that name whatever its type
getGeometricPrimitive_untyped(T, name) ==
  IF name \in DOMAIN GeometricPrimitiveMap THEN name ELSE "nullptr"

\* gpm->getGeometricPrimitive<T>(name): the primitive when it exists and has
\* type T, else nullptr
getGeometricPrimitive(T, name) ==
  IF name \in DOMAIN GeometricPrimitiveMap /\ GeometricPrimitiveMap[name].type = T
  THEN name ELSE "nullptr"

\* kdl_getQNrFromLinkName(robot_state->kdl_tree_, frame_id) == -1
NotAttached(name) == ~ GeometricPrimitiveMap[name].attached

\* a reset that sets the counter back and keeps the lists
reset_counter_only(def) == [def EXCEPT !.n_dimensions_ = 0]

\* reset(): n_dimensions_ = 0; task_types_.clear(); primitives_.clear()
reset(def) ==
  [def EXCEPT !.n_dimensions_ = 0, !.task_types_ = << >>, !.primitives_ = << >>]

\* the loop of init over parameters.at(i), i = 1 .. size-1 (TLA+ index i+1)
RECURSIVE TaskAvoidCollisionsSDF_init_loop(_, _, _)
TaskAvoidCollisionsSDF_init_loop(def, parameters, i) ==
  IF i > Len(parameters) THEN [rc |-> 0, def |-> def]
  ELSE LET name == parameters[i]
           push == [def EXCEPT !.primitives_ = Append(@, name),
                               !.n_dimensions_ = @ + 1]
       IN IF getGeometricPrimitive("point", name) /= "nullptr"
          THEN IF NotAttached(name) THEN [rc |-> -2, def |-> def]
               ELSE TaskAvoidCollisionsSDF_init_loop(push, parameters, i + 1)
          ELSE IF getGeometricPrimitive("sphere", name) /= "nullptr"
          THEN IF NotAttached(name) THEN [rc |-> -2, def |-> def]
               ELSE TaskAvoidCollisionsSDF_init_loop(push, parameters, i + 1)
          ELSE [rc |-> -2, def |-> def]

\* The source tree defines TaskAvoidCollisionsSDF twice: in
\* tasks/task_avoid_collisions_sdf.cpp, and in the second half of task.cpp,
\* the file the CMakeLists.txt of hiqp_core compiles. A build links one.
SDFDefinitions == {"tasks/task_avoid_collisions_sdf.cpp", "task.cpp"}

\* the tag init gives every row: 1 (greater or equal) in
\* tasks/task_avoid_collisions_sdf.cpp, 0 (equal) in task.cpp
TaskTypeInserted == IF linked = "task.cpp" THEN 0 ELSE 1

\* task_types_.insert(task_types_.begin(), n_dimensions_, <tag>)
insertTaskTypes(def) ==
  [def EXCEPT !.task_types_ = [k \in 1..def.n_dimensions_ |-> TaskTypeInserted] \o @]

TaskAvoidCollisionsSDF_init(def, parameters) ==
  IF Len(parameters) < 2 THEN [rc |-> -2, def |-> def]
  ELSE LET loop == TaskAvoidCollisionsSDF_init_loop(reset(def), parameters, 2) IN
       IF loop.rc /= 0 THEN loop
       ELSE [rc |-> 0, def |-> [insertTaskTypes(loop.def) EXCEPT !.fk_solver_ = TRUE]]

\* What the collaborators answer for one primitive during one update: the
\* result of the FK position call and of the Jacobian call, the result of
\* obstacleGradientBulk and the gradients it delivers, each either valid or
\* flagged by isValid as invalid
Answer(fk, jac, bulk, gradients) ==
  [fk |-> fk, jac |-> jac, bulk |-> bulk, gradients |-> gradients]

\* a provider that reports success and delivers no gradient, or two for the
\* one test point
RogueAnswers ==
  {Answer(TRUE, TRUE, TRUE, << >>), Answer(TRUE, TRUE, TRUE, <<"valid", "invalid">>)}

\* a provider that delivers one gradient for every test point
HonestAnswers ==
  {Answer(FALSE, TRUE, TRUE, <<"valid">>), Answer(TRUE, FALSE, TRUE, <<"valid">>),
   Answer(TRUE, TRUE, FALSE, << >>),
   Answer(TRUE, TRUE, TRUE, <<"valid">>), Answer(TRUE, TRUE, TRUE, <<"invalid">>)}

\* the answers given to a definition that is updated through its Task: the
\* FK call fails, or the checker delivers a valid or an invalid gradient
TaskAnswers ==
  {Answer(FALSE, TRUE, TRUE, <<"valid">>), Answer(TRUE, TRUE, TRUE, <<"valid">>),
   Answer(TRUE, TRUE, TRUE, <<"invalid">>)}

\* result of a step of update: how it ended ("returned" with code rc, or
\* "abort" when the process was killed) and the definition after it
\* and, in queries, the calls it made to the collaborators, in order
Returned(rc, def) == [outcome |-> "returned", rc |-> rc, def |-> def, queries |-> << >>]
Aborted(def) == [outcome |-> "abort", rc |-> 0, def |-> def, queries |-> << >>]

\* the result r of the rest of an update that first made the calls q
Queried(q, r) == [r EXCEPT !.queries = q \o @]

\* a forwardKinematics that leaves out the masking loop
forwardKinematics_unmasked(def, writable, answer) ==
  IF ~ def.fk_solver_
    THEN [outcome |-> "abort", rc |-> 0, ee_J_ |-> << >>, calls |-> << >>]
  ELSE IF ~ answer.fk
    THEN [outcome |-> "returned", rc |-> -2, ee_J_ |-> << >>,
          calls |-> <<"JntToCart">>]
  ELSE IF ~ answer.jac
    THEN [outcome |-> "returned", rc |-> -2, ee_J_ |-> << >>,
          calls |-> <<"JntToCart", "JntToJac">>]
  ELSE [outcome |-> "returned", rc |-> 0, ee_J_ |-> [j \in Joints |-> 1],
        calls |-> <<"JntToCart", "JntToJac">>]

\* a forwardKinematics that does not test the result of JntToJac
forwardKinematics_jac_unchecked(def, writable, answer) ==
  IF ~ def.fk_solver_
    THEN [outcome |-> "abort", rc |-> 0, ee_J_ |-> << >>, calls |-> << >>]
  ELSE IF ~ answer.fk
    THEN [outcome |-> "returned", rc |-> -2, ee_J_ |-> << >>,
          calls |-> <<"JntToCart">>]
  ELSE [outcome |-> "returned", rc |-> 0,
        ee_J_ |-> [j \in Joints |-> IF writable[j] THEN 1 ELSE 0],
        calls |-> <<"JntToCart", "JntToJac">>]

\* forwardKinematics: the two solver calls, then the columns of joints that
\* are not writable are set to zero. An entry of ee_J_ is 0 when it is exactly
\* zero and 1 when it may hold any value. The solvers are created by init; a
\* call through the empty pointer of a definition whose init did not finish
\* reads the vtable at address 0 and the process is killed.
forwardKinematics(def, writable, answer) ==
  IF ~ def.fk_solver_
    THEN [outcome |-> "abort", rc |-> 0, ee_J_ |-> << >>, calls |-> << >>]
  ELSE IF ~ answer.fk
    THEN [outcome |-> "returned", rc |-> -2, ee_J_ |-> << >>,
          calls |-> <<"JntToCart">>]
  ELSE IF ~ answer.jac
    THEN [outcome |-> "returned", rc |-> -2, ee_J_ |-> << >>,
          calls |-> <<"JntToCart", "JntToJac">>]
  ELSE [outcome |-> "returned", rc |-> 0,
        ee_J_ |-> [j \in Joints |-> IF writable[j] THEN 1 ELSE 0],
        calls |-> <<"JntToCart", "JntToJac">>]

\* primitiveForwardKinematics: kin_q_list gets one entry for a point and one
\* for a sphere; changeRefPoint adds multiples of the rotational part of a
\* column to its translational part, so a zero column stays zero
primitiveForwardKinematics(def, primitive, writable, answer) ==
  LET type == GeometricPrimitiveMap[primitive].type IN
  IF type = "point" \/ type = "sphere"
  THEN LET fk == forwardKinematics(def, writable, answer) IN
       IF fk.outcome = "abort" \/ fk.rc < 0
       THEN [outcome |-> fk.outcome, rc |-> -2, kin_q_list |-> << >>,
             calls |-> fk.calls]
       ELSE [outcome |-> "returned", rc |-> 0, kin_q_list |-> <<fk.ee_J_>>,
             calls |-> fk.calls]
  ELSE [outcome |-> "returned", rc |-> -2, kin_q_list |-> << >>, calls |-> << >>]

\* a row computed without asking isValid
jacobianRow_unchecked(gradient, ee_J_) == ee_J_

\* one row of J_: zero for an invalid gradient, else the velocity Jacobian
\* projected onto the gradient (zero wherever the column of ee_J_ is zero)
jacobianRow(gradient, ee_J_) ==
  IF gradient /= "valid" THEN [j \in Joints |-> 0] ELSE ee_J_

RECURSIVE appendTaskJacobian(_, _, _, _)
appendTaskJacobian(def, kin_q_list, gradients, i) ==
  IF i > Len(gradients) THEN def
  ELSE appendTaskJacobian(
         [def EXCEPT !.J_ = Append(@, jacobianRow(gradients[i], kin_q_list[i]))],
         kin_q_list, gradients, i + 1)

\* gradient.norm() - SAFETY_DISTANCE; the definition in task.cpp has no
\* safety distance
d == IF linked = "task.cpp" THEN "norm" ELSE "norm-SAFETY_DISTANCE"

\* one entry of e_: 0 for an invalid gradient, else d for a point and d less
\* the radius for a sphere
functionValue(gradient, type) ==
  IF gradient /= "valid" THEN "0"
  ELSE IF type = "point" THEN d
  ELSE IF type = "sphere" THEN d \o "-radius"
  ELSE "0"

RECURSIVE appendTaskFunction(_, _, _, _)
appendTaskFunction(def, primitive, gradients, i) ==
  IF i > Len(gradients) THEN def
  ELSE appendTaskFunction(
         [def EXCEPT !.e_ = Append(@, functionValue(gradients[i],
                                     GeometricPrimitiveMap[primitive].type))],
         primitive, gradients, i + 1)

\* the loop of update over primitives_; the three assertions of the source
\* (a gradient was found; as many gradients as kinematic quantities, twice)
\* end the process when they fail
RECURSIVE TaskAvoidCollisionsSDF_update_loop(_, _, _, _)
TaskAvoidCollisionsSDF_update_loop(def, writable, answers, i) ==
  IF i > Len(def.primitives_) THEN Returned(0, def)
  ELSE LET primitive == def.primitives_[i]
           pfk == primitiveForwardKinematics(def, primitive, writable, answers[i])
           gradients == answers[i].gradients
           fkq == [k \in 1..Len(pfk.calls) |-> [primitive |-> i, fn |-> pfk.calls[k]]]
           q == Append(fkq, [primitive |-> i, fn |-> "obstacleGradientBulk"])
       IN IF pfk.outcome = "abort" THEN Queried(fkq, Aborted(def))
          ELSE IF pfk.rc < 0 THEN Queried(fkq, Returned(-2, def))
          ELSE IF ~ answers[i].bulk THEN Queried(q, Returned(-2, def))
          ELSE IF ~ (Len(gradients) > 0) THEN Queried(q, Aborted(def))
          ELSE IF ~ (Len(pfk.kin_q_list) = Len(gradients)) THEN Queried(q, Aborted(def))
          ELSE Queried(q, TaskAvoidCollisionsSDF_update_loop(
                 appendTaskFunction(
                   appendTaskJacobian(def, pfk.kin_q_list, gradients, 1),
                   primitive, gradients, 1),
                 writable, answers, i + 1))

\* an update that does not empty e_ first
TaskAvoidCollisionsSDF_update_keep_e(def, writable, answers) ==
  TaskAvoidCollisionsSDF_update_loop([def EXCEPT !.J_ = << >>, !.J_cols = NumJoints],
                                     writable, answers, 1)

\* an update that appends to the rows it finds
TaskAvoidCollisionsSDF_update_append(def, writable, answers) ==
  TaskAvoidCollisionsSDF_update_loop([def EXCEPT !.J_cols = NumJoints],
                                     writable, answers, 1)

\* e_.resize(0); J_.resize(0, robot_state->getNumJoints()); then the loop
TaskAvoidCollisionsSDF_update(def, writable, answers) ==
  TaskAvoidCollisionsSDF_update_loop([def EXCEPT !.e_ = << >>, !.J_ = << >>, !.J_cols = NumJoints],
                writable, answers, 1)

----------------------------------------------------------------------------
(* The task definitions and dynamics whose code is not in src/ *)

\* init of a definition other than TaskAvoidCollisionsSDF: it either fails or
\* allocates e_, J_ and task_types_ at the dimension dim of the task
TaskDefinition_init(def, ok, dim) ==
  IF ~ ok THEN [rc |-> -1, def |-> def]
  ELSE [rc |-> 0,
        def |-> [def EXCEPT !.e_ = [k \in 1..dim |-> "e"],
                            !.J_ = [k \in 1..dim |-> [j \in Joints |-> 0]],
                            !.J_cols = NumJoints,
                            !.task_types_ = [k \in 1..dim |-> 0],
                            !.n_dimensions_ = dim]]

\* update of such a definition: it either fails or recomputes e_ and J_,
\* one row for each task type, the columns of non-writable joints masked
TaskDefinition_update(def, ok, writable) ==
  IF ~ ok THEN Returned(-1, def)
  ELSE Returned(0,
        [def EXCEPT !.e_ = [k \in 1..Len(def.task_types_) |-> "e"],
                    !.J_ = [k \in 1..Len(def.task_types_) |->
                              [j \in Joints |-> IF writable[j] THEN 1 ELSE 0]],
                    !.J_cols = NumJoints])

\* TaskDefinition::initialize(def_params, robot_state)
initialize(def, def_params, ok, dim) ==
  IF def.class = "TaskAvoidCollisionsSDF" THEN TaskAvoidCollisionsSDF_init(def, def_params)
  ELSE TaskDefinition_init(def, ok, dim)

\* TaskDefinition::update(robot_state)
update(def, ok, writable, answers) ==
  IF def.class = "TaskAvoidCollisionsSDF" THEN TaskAvoidCollisionsSDF_update(def, writable, answers)
  ELSE TaskDefinition_update(def, ok, writable)

\* def_->getInitialValue()
getInitialValue(def) == def.e_

\* TaskDynamics::init(dyn_params, robot_state, e_initial, e_final)
TaskDynamics_init(dyn, ok, e_initial) ==
  IF ~ ok THEN [rc |-> -1, dyn |-> dyn]
  ELSE [rc |-> 0, dyn |-> [dyn EXCEPT !.e_dot_star_ = [k \in 1..Len(e_initial) |-> "de"]]]

\* TaskDynamics::update(robot_state, e, J): one value of e_dot_star_ per row of e
TaskDynamics_update(dyn, ok, e, J) ==
  IF ~ ok THEN [rc |-> -1, dyn |-> dyn]
  ELSE [rc |-> 0, dyn |-> [dyn EXCEPT !.e_dot_star_ = [k \in 1..Len(e) |-> "de"]]]

----------------------------------------------------------------------------
(* Task::init and Task::update *)

\* the assignments with visible_ taken from the active argument
propagate_mixup(obj, name, priority, active, visible) ==
  [obj EXCEPT !.task_name_ = name, !.priority_ = priority,
              !.active_ = active, !.visible_ = active]

\* the four assignments of init to a sub-object
propagate(obj, name, priority, active, visible) ==
  [obj EXCEPT !.task_name_ = name, !.priority_ = priority,
              !.active_ = active, !.visible_ = visible]

\* result of a call on the Task: how it ended ("returned" with code ret,
\* "exception" when one left the call, "abort" when the process was killed),
\* the sub-objects after it, whether they are new objects, and the sub-calls
\* it made, in order
Result(outcome, ret, def, def_new, dyn, dyn_new, calls) ==
  [outcome |-> outcome, ret |-> ret, def |-> def, def_new |-> def_new,
   dyn |-> dyn, dyn_new |-> dyn_new, calls |-> calls]

\* a sub-call that a call on the Task made: the function, its return value, and
\* whether an exception left it instead
Called(fn, rc) == [fn |-> fn, rc |-> rc, thrown |-> FALSE]
Threw(fn) == [fn |-> fn, rc |-> 0, thrown |-> TRUE]

\* Task::init; defOk, dim and dynOk are the answers of the code outside src/
Task_init(def_params, dyn_params, def, dyn, name, priority, active, visible, defOk, dim, dynOk) ==
  IF EmptyParams(def_params) THEN Result("returned", -1, def, FALSE, dyn, FALSE, << >>)
  ELSE IF EmptyParams(dyn_params)
    THEN Result("returned", -2, def, FALSE, dyn, FALSE, << >>)
  ELSE
    LET cdef == constructDefinition(def_params, def) IN
    IF cdef.thrown
      THEN Result("exception", 0, cdef.obj, cdef.new, dyn, FALSE,
                  <<Threw("constructDefinition")>>)
    ELSE
    LET c1 == <<Called("constructDefinition", cdef.rc)>> IN
    IF cdef.rc /= 0
      THEN Result("returned", -3, cdef.obj, cdef.new, dyn, FALSE, c1)
    ELSE
    LET cdyn == constructDynamics(dyn_params, dyn) IN
    IF cdyn.thrown
      THEN Result("exception", 0, cdef.obj, cdef.new, cdyn.obj, cdyn.new,
                  Append(c1, Threw("constructDynamics")))
    ELSE
    LET c2 == Append(c1, Called("constructDynamics", cdyn.rc)) IN
    IF cdyn.rc /= 0
      THEN Result("returned", -4, cdef.obj, cdef.new, cdyn.obj, cdyn.new, c2)
    ELSE
    LET d1 == propagate(cdef.obj, name, priority, active, visible)
        y1 == propagate(cdyn.obj, name, priority, active, visible)
        di == initialize(d1, def_params, defOk, dim)
        c3 == Append(c2, Called("def.initialize", di.rc))
    IN
    IF di.rc /= 0
      THEN Result("returned", -5, di.def, cdef.new, y1, cdyn.new, c3)
    ELSE
    LET yi == TaskDynamics_init(y1, dynOk, getInitialValue(di.def))
        c4 == Append(c3, Called("dyn.init", yi.rc))
    IN
    IF yi.rc /= 0
      THEN Result("returned", -6, di.def, cdef.new, yi.dyn, cdyn.new, c4)
    ELSE Result("returned", 0, di.def, cdef.new, yi.dyn, cdyn.new, c4)

\* an update that goes on to the dynamics after the definition failed
Task_update_no_short_circuit(def, dyn, defOk, dynOk, writable, answers) ==
  IF def = NoObj \/ dyn = NoObj
    THEN Result("returned", -2, def, FALSE, dyn, FALSE, << >>)
  ELSE
    LET du == update(def, defOk, writable, answers) IN
    IF du.outcome = "abort"
      THEN Result("abort", 0, du.def, FALSE, dyn, FALSE, << >>)
    ELSE
    LET yu == TaskDynamics_update(dyn, dynOk, du.def.e_, du.def.J_)
        c2 == <<Called("def.update", du.rc), Called("dyn.update", yu.rc)>>
    IN
    IF du.rc /= 0 \/ yu.rc /= 0
      THEN Result("returned", -2, du.def, FALSE, yu.dyn, FALSE, c2)
    ELSE Result("returned", 0, du.def, FALSE, yu.dyn, FALSE, c2)

\* Task::update; defOk and dynOk are the answers of the code outside src/,
\* writable and answers those of the robot state and the collaborators
Task_update(def, dyn, defOk, dynOk, writable, answers) ==
  IF def = NoObj \/ dyn = NoObj
    THEN Result("returned", -2, def, FALSE, dyn, FALSE, << >>)
  ELSE
    LET du == update(def, defOk, writable, answers) IN
    IF du.outcome = "abort"
      THEN Result("abort", 0, du.def, FALSE, dyn, FALSE, << >>)
    ELSE
    LET c1 == <<Called("def.update", du.rc)>> IN
    IF du.rc /= 0
      THEN Result("returned", -2, du.def, FALSE, dyn, FALSE, c1)
    ELSE
    LET yu == TaskDynamics_update(dyn, dynOk, du.def.e_, du.def.J_)
        c2 == Append(c1, Called("dyn.update", yu.rc))
    IN
    IF yu.rc /= 0
      THEN Result("returned", -2, du.def, FALSE, yu.dyn, FALSE, c2)
    ELSE Result("returned", 0, du.def, FALSE, yu.dyn, FALSE, c2)

----------------------------------------------------------------------------
(* GeometricPoint and GeometricBox *)

\* what a member that its constructor does not initialise may hold
Garbage == {0, 99}

\* the parameter vectors given to init: every length up to MaxParams, the
\* element at index i (from 0) being b + i + 1
Bases == {10, 20}
ParamsInputs == {[i \in 1..n |-> b + i] : n \in 0..MaxParams, b \in Bases}

\* a 3x3 matrix or a quaternion, by how it was computed (kind) and the
\* numbers it was computed from (v)
Made(kind, v) == [kind |-> kind, v |-> v]

\* the constructor: KDL::Vector starts as zero, Eigen::Vector3d is left as
\* it is in memory (g)
GeometricPoint_ctor(g) == [kdl_p_ |-> <<0, 0, 0>>, eigen_p_ |-> <<g, g, g>>]

\* GeometricPoint::init
GeometricPoint_init(self, parameters) ==
  IF Len(parameters) /= 3 THEN [rc |-> -1, self |-> self]
  ELSE LET kdl_p_ == <<parameters[1], parameters[2], parameters[3]>>
       IN [rc |-> 0, self |-> [self EXCEPT !.kdl_p_ = kdl_p_, !.eigen_p_ = kdl_p_]]

getX(self) == self.kdl_p_[1]
getY(self) == self.kdl_p_[2]
getZ(self) == self.kdl_p_[3]

\* the constructor: KDL::Vector starts as zero and KDL::Rotation as the
\* identity; the Eigen members are left as they are in memory
GeometricBox_ctor(g) ==
  [kdl_c_ |-> <<0, 0, 0>>, eigen_c_ |-> <<g, g, g>>,
   kdl_dim_ |-> <<0, 0, 0>>, eigen_dim_ |-> <<g, g, g>>,
   rotation_kdl_ |-> Made("identity", <<0, 0, 0, 0>>),
   q_ |-> Made("coeffs", <<g, g, g, g>>),
   scaling_matrix_kdl_ |-> Made("identity", <<0, 0, 0>>),
   scaling_matrix_inverted_kdl_ |-> Made("identity", <<0, 0, 0>>),
   scaling_matrix_eigen_ |-> Made("garbage", <<g, g, g>>)]

\* Eigen::Quaternion<double>(w, x, y, z): the coefficients are stored in the
\* order x, y, z, w
Quaternion(w, x, y, z) == Made("coeffs", <<x, y, z, w>>)

\* the quaternion of the rotation AngleAxis(a1, X) * AngleAxis(a2, Y) *
\* AngleAxis(a3, Z)
EulerQuaternion(a1, a2, a3) == Made("euler", <<a1, a2, a3, 0>>)

\* the assignments of init after the size test
GeometricBox_assign(self, parameters, q) ==
  LET c == <<parameters[1], parameters[2], parameters[3]>>
      dim == <<parameters[4], parameters[5], parameters[6]>>
  IN [self EXCEPT !.kdl_c_ = c, !.kdl_dim_ = dim,
                  !.scaling_matrix_eigen_ = Made("1/dim", dim),
                  !.scaling_matrix_kdl_ = Made("1/dim", dim),
                  !.scaling_matrix_inverted_kdl_ = Made("dim", dim),
                  !.q_ = q, !.eigen_c_ = c, !.eigen_dim_ = dim,
                  !.rotation_kdl_ = Made("Rotation::Quaternion", q.v)]

\* the orientation init takes from the parameters
GeometricBox_orientation(parameters) ==
  IF Len(parameters) = 9
    THEN EulerQuaternion(parameters[7], parameters[8], parameters[9])
  ELSE IF Len(parameters) = 10
    THEN Quaternion(parameters[7], parameters[8], parameters[9], parameters[10])
  ELSE Quaternion(1, 0, 0, 0)

\* an init whose size test lets every length of 6 or more through
GeometricBox_init_at_least_6(self, parameters) ==
  IF Len(parameters) < 6 THEN [rc |-> -1, self |-> self]
  ELSE [rc |-> 0,
        self |-> GeometricBox_assign(self, parameters, GeometricBox_orientation(parameters))]

\* an init that takes the quaternion parameters in the order x, y, z, w
GeometricBox_init_xyzw(self, parameters) ==
  IF Len(parameters) /= 6 /\ Len(parameters) /= 9 /\ Len(parameters) /= 10
    THEN [rc |-> -1, self |-> self]
  ELSE [rc |-> 0,
        self |-> GeometricBox_assign(self, parameters,
                   IF Len(parameters) = 10
                   THEN Quaternion(parameters[10], parameters[7], parameters[8], parameters[9])
                   ELSE GeometricBox_orientation(parameters))]

\* an init that assigns the center before it tests the size
GeometricBox_init_assign_first(self, parameters) ==
  IF Len(parameters) /= 6 /\ Len(parameters) /= 9 /\ Len(parameters) /= 10
    THEN [rc |-> -1,
          self |-> IF Len(parameters) >= 3
                   THEN [self EXCEPT !.kdl_c_ = <<parameters[1], parameters[2], parameters[3]>>]
                   ELSE self]
  ELSE [rc |-> 0,
        self |-> GeometricBox_assign(self, parameters, GeometricBox_orientation(parameters))]

\* GeometricBox::init
GeometricBox_init(self, parameters) ==
  IF Len(parameters) /= 6 /\ Len(parameters) /= 9 /\ Len(parameters) /= 10
    THEN [rc |-> -1, self |-> self]
  ELSE [rc |-> 0,
        self |-> GeometricBox_assign(self, parameters, GeometricBox_orientation(parameters))]

getCenterX(self) == self.kdl_c_[1]
getCenterY(self) == self.kdl_c_[2]
getCenterZ(self) == self.kdl_c_[3]
getDimX(self) == self.kdl_dim_[1]
getDimY(self) == self.kdl_dim_[2]
getDimZ(self) == self.kdl_dim_[3]

\* getQuaternion(w, x, y, z): q_.w(), q_.x(), q_.y(), q_.z()
getQuaternion(self) == <<self.q_.v[4], self.q_.v[1], self.q_.v[2], self.q_.v[3]>>

\* the primitives as the specifications that are not about them hold them
NoPrimitives == point = GeometricPoint_ctor(0) /\ box = GeometricBox_ctor(0)

----------------------------------------------------------------------------
(* TaskManager: threads and mutex *)

\* the periodic caller of getVelocityControls and the caller of the
\* configuration services
Threads == {"control", "service"}

\* the source tree holds two task_manager.h: the TaskManager of hiqp_core has
\* the member resource_mutex_ and declares activateTask and deactivateTask;
\* that of hiqp_controllers has no mutex member and defines the two inline
TaskManagerHeaders == {"hiqp_core/include/hiqp/task_manager.h",
                       "hiqp_controllers/include/hiqp/task_manager.h"}

\* no thread is in the TaskManager
NoManager ==
  /\ pc = [t \in Threads |-> "idle"]
  /\ resource_mutex_ = "unlocked"
  /\ task_manager_h = "hiqp_core/include/hiqp/task_manager.h"

\* an empty registry and a solver without stages
NoRegistry == task_map_ = {} /\ solver_ = << >>

----------------------------------------------------------------------------
(* State machine *)

\* the record of a call: its arguments, its result r, and what the Task was
\* when it started
Call(op, def_params, dyn_params, r) ==
  [op |-> op, def_params |-> def_params, dyn_params |-> dyn_params,
   outcome |-> r.outcome, ret |-> r.ret, calls |-> r.calls,
   def_same |-> (~ r.def_new /\ r.def = def_),
   dyn_same |-> (~ r.dyn_new /\ r.dyn = dyn_),
   pre_active |-> active_, pre_ok |-> ever_ok,
   pre_objects |-> (def_ /= NoObj /\ dyn_ /= NoObj)]

\* the process runs until it is killed
Alive == last.outcome /= "abort"

Init ==
  /\ task_name_ = "t1"
  /\ priority_ = 1
  /\ active_ \in BOOLEAN
  /\ visible_ = TRUE
  /\ def_ = NoObj
  /\ dyn_ = NoObj
  /\ last = [op |-> "none", def_params |-> << >>, dyn_params |-> << >>,
             outcome |-> "returned", ret |-> 0, calls |-> << >>,
             def_same |-> TRUE, dyn_same |-> TRUE,
             pre_active |-> active_, pre_ok |-> FALSE, pre_objects |-> FALSE]
  /\ ever_ok = FALSE
  /\ linked = "tasks/task_avoid_collisions_sdf.cpp"
  /\ NoPrimitives /\ NoManager /\ NoRegistry

\* task.init(def_params, dyn_params, robot_state) with arguments of the sets
InitWith(defInputs, dynInputs) ==
  /\ \E def_params \in defInputs, dyn_params \in dynInputs, a \in InitAnswers :
       LET r == Task_init(def_params, dyn_params, def_, dyn_, task_name_,
                          priority_, active_, visible_, a.defOk, a.dim, a.dynOk)
       IN /\ def_' = r.def
          /\ dyn_' = r.dyn
          /\ last' = Call("init", def_params, dyn_params, r)
          /\ ever_ok' = (ever_ok \/ (r.outcome = "returned" /\ r.ret = 0))
  /\ UNCHANGED <<task_name_, priority_, active_, visible_, linked, prim_vars, mgr_vars, reg_vars>>

\* a caller runs task.init on a Task in use
CallInit == Alive /\ InitWith(DefParamsInputs, DynParamsInputs)

\* a caller runs task.init on a Task nothing has been called on yet
CallFirstInit == last.op = "none" /\ InitWith(AllDefParamsInputs, AllDynParamsInputs)

\* a caller runs task.update(robot_state)
CallUpdate ==
  /\ Alive
  /\ \E a \in UpdateAnswers, writable \in WritableInputs,
        answers \in [1..(IF def_ = NoObj THEN 0 ELSE Len(def_.primitives_))
                       -> TaskAnswers] :
       LET r == Task_update(def_, dyn_, a.defOk, a.dynOk, writable, answers)
       IN /\ def_' = r.def
          /\ dyn_' = r.dyn
          /\ last' = Call("update", << >>, << >>, r)
  /\ UNCHANGED <<task_name_, priority_, active_, visible_, ever_ok, linked, prim_vars, mgr_vars, reg_vars>>

\* Task::setActive(active), as called by TaskManager::activateTask and
\* TaskManager::deactivateTask
CallSetActive ==
  /\ Alive
  /\ \E active \in BOOLEAN :
       /\ active_' = active
       /\ last' = Call("setActive", << >>, << >>,
                       Result("returned", 0, def_, FALSE, dyn_, FALSE, << >>))
  /\ UNCHANGED <<task_name_, priority_, visible_, def_, dyn_, ever_ok, linked, prim_vars, mgr_vars, reg_vars>>

Next == CallInit \/ CallUpdate \/ CallSetActive

Spec == Init /\ [][Next]_vars

\* The TaskAvoidCollisionsSDF object by itself: a caller constructs it and
\* runs init and update on it directly, with a provider that may deliver
\* any number of gradients.

\* the argument lists of init
SDFParamsInputs ==
  {<< >>, <<"TDefAvoidCollisionsSDF">>,
   <<"TDefAvoidCollisionsSDF", "p1">>, <<"TDefAvoidCollisionsSDF", "s1">>,
   <<"TDefAvoidCollisionsSDF", "p1", "s1">>, <<"TDefAvoidCollisionsSDF", "s1", "p1">>,
   <<"TDefAvoidCollisionsSDF", "p1", "p1">>,
   <<"TDefAvoidCollisionsSDF", "b1">>, <<"TDefAvoidCollisionsSDF", "pfar">>,
   <<"TDefAvoidCollisionsSDF", "p1", "nope">>, <<"TDefAvoidCollisionsSDF", "nope", "p1">>}

\* the record of a call on the definition: its arguments, how it ended and
\* the calls it made to the collaborators; whether it is an update that
\* follows an update with the same robot state and the same answers; and
\* whether the definition def it leaves has the e_ and J_, and the
\* primitives_, n_dimensions_ and task_types_, it had when the call started
SDFCall(op, parameters, writable, answers, outcome, ret, queries, def) ==
  [op |-> op, parameters |-> parameters, writable |-> writable,
   answers |-> answers, outcome |-> outcome, ret |-> ret, queries |-> queries,
   repeated |-> (/\ op = "update" /\ last.op = "update"
                 /\ last.writable = writable /\ last.answers = answers),
   same_rows |-> (def.e_ = def_.e_ /\ def.J_ = def_.J_),
   same_lists |-> (/\ def.primitives_ = def_.primitives_
                   /\ def.n_dimensions_ = def_.n_dimensions_
                   /\ def.task_types_ = def_.task_types_)]

InitSDF ==
  /\ task_name_ = "t1"
  /\ priority_ = 1
  /\ active_ = TRUE
  /\ visible_ = TRUE
  /\ def_ = TaskAvoidCollisionsSDF_ctor
  /\ dyn_ = NoObj
  /\ last = [op |-> "ctor", parameters |-> << >>, writable |-> [j \in Joints |-> TRUE],
             answers |-> << >>, outcome |-> "returned", ret |-> 0, queries |-> << >>,
             repeated |-> FALSE, same_rows |-> TRUE, same_lists |-> TRUE]
  /\ ever_ok = FALSE
  /\ linked \in SDFDefinitions
  /\ NoPrimitives /\ NoManager /\ NoRegistry

\* def->init(parameters, robot_state)
SDFInit ==
  /\ Alive
  /\ \E parameters \in SDFParamsInputs :
       \E r \in {TaskAvoidCollisionsSDF_init(def_, parameters)} :
          /\ def_' = r.def
          /\ last' = SDFCall("init", parameters, [j \in Joints |-> TRUE], << >>,
                             "returned", r.rc, << >>, r.def)
  /\ UNCHANGED <<task_name_, priority_, active_, visible_, dyn_, ever_ok, linked, prim_vars, mgr_vars, reg_vars>>

\* def->update(robot_state)
SDFUpdate ==
  /\ Alive
  /\ \E writable \in WritableInputs,
        answers \in [1..Len(def_.primitives_) -> HonestAnswers \cup RogueAnswers] :
       \E r \in {TaskAvoidCollisionsSDF_update(def_, writable, answers)} :
          /\ def_' = r.def
          /\ last' = SDFCall("update", << >>, writable, answers,
                             r.outcome, r.rc, r.queries, r.def)
  /\ UNCHANGED <<task_name_, priority_, active_, visible_, dyn_, ever_ok, linked, prim_vars, mgr_vars, reg_vars>>

NextSDF == SDFInit \/ SDFUpdate

SpecSDF == InitSDF /\ [][NextSDF]_vars

\* The Task from its construction to its destruction, with a record of the
\* collision checkers: `destroyed` holds the definitions destroyed during
\* the last call, `live` counts the checkers that were activated and not
\* deactivated, and `queried` is the lifecycle of the checker an update sent
\* obstacleGradientBulk to (empty when it asked nothing).

IsSDF(obj) == obj /= NoObj /\ obj.class = "TaskAvoidCollisionsSDF"

\* the lifecycle calls the checker of obj has received include deactivate()
Deactivated(obj) ==
  \E k \in 1..Len(obj.collision_checker_) : obj.collision_checker_[k] = "deactivate"

\* the definitions a call destroyed: the one def_ held, when the call assigned
\* def_ a new object
Destroyed(old, def_new) ==
  IF def_new /\ old /= NoObj THEN <<release(old)>> ELSE << >>

\* the checkers activated and not deactivated after a call that constructed
\* the definition new_def (when def_new) and destroyed the definitions gone
LiveAfter(live, new_def, def_new, gone) ==
  live + (IF def_new /\ IsSDF(new_def) THEN 1 ELSE 0)
       - Cardinality({k \in 1..Len(gone) : IsSDF(gone[k]) /\ Deactivated(gone[k])})

LifeRecord(destroyed, live, queried) ==
  [destroyed |-> destroyed, live |-> live, queried |-> queried]

\* the argument lists of init: a definition without a checker, definitions
\* with one whose initialisation succeeds or fails, and a token that
\* constructs nothing
LifeDefParamsInputs ==
  {<<"TDefFullPose">>, <<"tdeffullpose">>, <<"TDefAvoidCollisionsSDF", "p1">>,
   <<"TDefAvoidCollisionsSDF", "p1", "s1">>, <<"TDefAvoidCollisionsSDF", "p1", "nope">>}

LifeDynParamsInputs == {<<"TDynFirstOrder", "1.0">>, <<"TDynConstant", "1.0">>}

\* what the code outside src/ answers during one init, and during one update
LifeInitAnswers ==
  {[defOk |-> FALSE, dim |-> 1, dynOk |-> FALSE], [defOk |-> TRUE, dim |-> 1, dynOk |-> TRUE]}

LifeUpdateAnswers == {[defOk |-> FALSE, dynOk |-> FALSE], [defOk |-> TRUE, dynOk |-> TRUE]}

InitLife ==
  /\ task_name_ = "t1"
  /\ priority_ = 1
  /\ active_ = TRUE
  /\ visible_ = TRUE
  /\ def_ = NoObj
  /\ dyn_ = NoObj
  /\ last = [op |-> "none", def_params |-> << >>, dyn_params |-> << >>,
             outcome |-> "returned", ret |-> 0, calls |-> << >>,
             def_same |-> TRUE, dyn_same |-> TRUE,
             pre_active |-> TRUE, pre_ok |-> FALSE, pre_objects |-> FALSE]
            @@ LifeRecord(<< >>, 0, << >>)
  /\ ever_ok = FALSE
  /\ linked = "tasks/task_avoid_collisions_sdf.cpp"
  /\ NoPrimitives /\ NoManager /\ NoRegistry

\* the Task is there: the process runs and ~Task has not run
Exists == Alive /\ last.op /= "destroy"

\* task.init(def_params, dyn_params, robot_state)
LifeInit ==
  /\ Exists
  /\ \E def_params \in LifeDefParamsInputs, dyn_params \in LifeDynParamsInputs,
        a \in LifeInitAnswers :
       LET r == Task_init(def_params, dyn_params, def_, dyn_, task_name_,
                          priority_, active_, visible_, a.defOk, a.dim, a.dynOk)
           gone == Destroyed(def_, r.def_new)
       IN /\ def_' = r.def
          /\ dyn_' = r.dyn
          /\ last' = Call("init", def_params, dyn_params, r)
                       @@ LifeRecord(gone, LiveAfter(last.live, r.def, r.def_new, gone),
                                     << >>)
          /\ ever_ok' = (ever_ok \/ (r.outcome = "returned" /\ r.ret = 0))
  /\ UNCHANGED <<task_name_, priority_, active_, visible_, linked, prim_vars, mgr_vars, reg_vars>>

\* task.update(robot_state)
LifeUpdate ==
  /\ Exists
  /\ \E a \in LifeUpdateAnswers, writable \in WritableInputs,
        answers \in [1..(IF def_ = NoObj THEN 0 ELSE Len(def_.primitives_))
                       -> TaskAnswers] :
       LET r == Task_update(def_, dyn_, a.defOk, a.dynOk, writable, answers)
           asked == IF IsSDF(def_) /\ dyn_ /= NoObj
                    THEN TaskAvoidCollisionsSDF_update(def_, writable, answers).queries
                    ELSE << >>
           queried == IF \E n \in 1..Len(asked) : asked[n].fn = "obstacleGradientBulk"
                      THEN def_.collision_checker_ ELSE << >>
       IN /\ def_' = r.def
          /\ dyn_' = r.dyn
          /\ last' = Call("update", << >>, << >>, r)
                       @@ LifeRecord(<< >>, last.live, queried)
  /\ UNCHANGED <<task_name_, priority_, active_, visible_, ever_ok, linked, prim_vars, mgr_vars, reg_vars>>

\* the Task is destroyed: its members def_ and dyn_ give up their objects
DestroyTask ==
  /\ Exists
  /\ LET gone == Destroyed(def_, TRUE)
     IN last' = Call("destroy", << >>, << >>,
                     Result("returned", 0, NoObj, TRUE, NoObj, TRUE, << >>))
                @@ LifeRecord(gone, LiveAfter(last.live, NoObj, TRUE, gone), << >>)
  /\ def_' = NoObj
  /\ dyn_' = NoObj
  /\ UNCHANGED <<task_name_, priority_, active_, visible_, ever_ok, linked, prim_vars, mgr_vars, reg_vars>>

NextLife == LifeInit \/ LifeUpdate \/ DestroyTask

SpecLife == InitLife /\ [][NextLife]_vars

\* A GeometricPoint and a GeometricBox by themselves: a caller constructs
\* them and runs init on them, again and again.

\* the record of a call of init on a primitive: its arguments, its return
\* value and the two primitives as they were before it
PrimCall(op, parameters, ret) ==
  [op |-> op, parameters |-> parameters, outcome |-> "returned", ret |-> ret,
   pre_point |-> point, pre_box |-> box]

InitPrim ==
  /\ task_name_ = "t1"
  /\ priority_ = 1
  /\ active_ = TRUE
  /\ visible_ = TRUE
  /\ def_ = NoObj
  /\ dyn_ = NoObj
  /\ ever_ok = FALSE
  /\ linked = "task.cpp"
  /\ \E g \in Garbage : point = GeometricPoint_ctor(g) /\ box = GeometricBox_ctor(g)
  /\ last = PrimCall("none", << >>, 0)
  /\ NoManager /\ NoRegistry

\* point->init(parameters)
PointInit ==
  /\ \E parameters \in ParamsInputs :
       LET r == GeometricPoint_init(point, parameters)
       IN /\ point' = r.self
          /\ last' = PrimCall("point.init", parameters, r.rc)
  /\ UNCHANGED <<task_name_, priority_, active_, visible_, def_, dyn_, ever_ok,
                 linked, box, mgr_vars, reg_vars>>

\* box->init(parameters)
BoxInit ==
  /\ \E parameters \in ParamsInputs :
       LET r == GeometricBox_init(box, parameters)
       IN /\ box' = r.self
          /\ last' = PrimCall("box.init", parameters, r.rc)
  /\ UNCHANGED <<task_name_, priority_, active_, visible_, def_, dyn_, ever_ok,
                 linked, point, mgr_vars, reg_vars>>

NextPrim == PointInit \/ BoxInit

SpecPrim == InitPrim /\ [][NextPrim]_vars

\* The TaskManager with the Task "t1" in its task_map_, a control thread
\* that runs getVelocityControls and a service thread that runs setTask,
\* activateTask and deactivateTask. pc tells where each thread is; a thread
\* that waits for the mutex is still "idle".

\* the def_params of the calls of setTask
SetTaskInputs ==
  {<<"TDefFullPose">>, <<"TDefJntConfig">>, <<"TDefAvoidCollisionsSDF", "p1">>}

InitMgr ==
  /\ task_name_ = "t1"
  /\ priority_ = 1
  /\ active_ = TRUE
  /\ visible_ = TRUE
  /\ def_ = NoObj
  /\ dyn_ = NoObj
  /\ last = [op |-> "none", def_params |-> << >>, outcome |-> "returned", ret |-> 0]
  /\ ever_ok = FALSE
  /\ linked = "tasks/task_avoid_collisions_sdf.cpp"
  /\ NoPrimitives
  /\ pc = [t \in Threads |-> "idle"]
  /\ resource_mutex_ = "unlocked"
  /\ task_manager_h \in TaskManagerHeaders
  /\ NoRegistry

\* resource_mutex_.lock() by thread t, returning
lock(t) == resource_mutex_ = "unlocked" /\ resource_mutex_' = t

\* resource_mutex_.unlock()
unlock == resource_mutex_' = "unlocked"

\* thread t goes on to the place loc
goto(t, loc) == pc' = [pc EXCEPT ![t] = loc]

\* getVelocityControls: takes the mutex
GetVelocityControls_lock ==
  /\ pc["control"] = "idle"
  /\ lock("control")
  /\ goto("control", "update")
  /\ UNCHANGED <<task_name_, priority_, active_, visible_, def_, dyn_, last,
                 ever_ok, linked, prim_vars, task_manager_h, reg_vars>>

\* getVelocityControls: Task::update on the task when it is active
GetVelocityControls_update ==
  /\ pc["control"] = "update"
  /\ IF active_
     THEN \E a \in UpdateAnswers, writable \in WritableInputs,
             answers \in [1..(IF def_ = NoObj THEN 0 ELSE Len(def_.primitives_))
                            -> HonestAnswers] :
            LET r == Task_update(def_, dyn_, a.defOk, a.dynOk, writable, answers)
            IN /\ def_' = r.def
               /\ dyn_' = r.dyn
               /\ goto("control", IF r.outcome = "abort" THEN "killed" ELSE "solve")
     ELSE UNCHANGED <<def_, dyn_>> /\ goto("control", "solve")
  /\ UNCHANGED <<task_name_, priority_, active_, visible_, last, ever_ok, linked,
                 prim_vars, resource_mutex_, task_manager_h, reg_vars>>

\* getVelocityControls: the solve, then the mutex is given back
GetVelocityControls_solve ==
  /\ pc["control"] = "solve"
  /\ unlock
  /\ goto("control", "idle")
  /\ UNCHANGED <<task_name_, priority_, active_, visible_, def_, dyn_, last,
                 ever_ok, linked, prim_vars, task_manager_h, reg_vars>>

\* the process runs: no update has killed it
Running == pc["control"] /= "killed"

\* setTask: takes the mutex
SetTask_lock ==
  /\ Running /\ pc["service"] = "idle"
  /\ lock("service")
  /\ goto("service", "setTask")
  /\ UNCHANGED <<task_name_, priority_, active_, visible_, def_, dyn_, last,
                 ever_ok, linked, prim_vars, task_manager_h, reg_vars>>

\* setTask, in Task::init: constructDefinition has assigned def_
SetTask_constructDefinition ==
  /\ Running /\ pc["service"] = "setTask"
  /\ \E def_params \in SetTaskInputs :
       /\ def_' = constructDefinition(def_params, def_).obj
       /\ last' = [last EXCEPT !.op = "setTask", !.def_params = def_params]
  /\ goto("service", "setTask_constructed")
  /\ UNCHANGED <<task_name_, priority_, active_, visible_, dyn_, ever_ok, linked,
                 prim_vars, resource_mutex_, task_manager_h, reg_vars>>

\* setTask, in Task::init: the rest of init
SetTask_init ==
  /\ Running /\ pc["service"] = "setTask_constructed"
  /\ \E a \in InitAnswers :
       LET r == Task_init(last.def_params, <<"TDynFirstOrder", "1.0">>, def_, dyn_,
                          task_name_, priority_, active_, visible_,
                          a.defOk, a.dim, a.dynOk)
       IN /\ def_' = r.def
          /\ dyn_' = r.dyn
          /\ last' = [last EXCEPT !.ret = r.ret]
  /\ goto("service", "setTask_initialised")
  /\ UNCHANGED <<task_name_, priority_, active_, visible_, ever_ok, linked,
                 prim_vars, resource_mutex_, task_manager_h, reg_vars>>

\* setTask: gives the mutex back
SetTask_unlock ==
  /\ Running /\ pc["service"] = "setTask_initialised"
  /\ unlock
  /\ goto("service", "idle")
  /\ UNCHANGED <<task_name_, priority_, active_, visible_, def_, dyn_, last,
                 ever_ok, linked, prim_vars, task_manager_h, reg_vars>>

\* activateTask and deactivateTask of hiqp_core: take the mutex
ActivateTask_lock ==
  /\ Running /\ pc["service"] = "idle"
  /\ task_manager_h = "hiqp_core/include/hiqp/task_manager.h"
  /\ lock("service")
  /\ \E op \in {"activateTask", "deactivateTask"} : goto("service", op)
  /\ UNCHANGED <<task_name_, priority_, active_, visible_, def_, dyn_, last,
                 ever_ok, linked, prim_vars, task_manager_h, reg_vars>>

\* activateTask and deactivateTask of hiqp_core: Task::setActive, then the
\* mutex is given back
ActivateTask_setActive ==
  /\ Running /\ pc["service"] \in {"activateTask", "deactivateTask"}
  /\ active_' = (pc["service"] = "activateTask")
  /\ unlock
  /\ goto("service", "idle")
  /\ UNCHANGED <<task_name_, priority_, visible_, def_, dyn_, last,
                 ever_ok, linked, prim_vars, task_manager_h, reg_vars>>

\* the inline activateTask and deactivateTask of hiqp_controllers:
\* task_map_.find(name)
InlineActivateTask_find ==
  /\ Running /\ pc["service"] = "idle"
  /\ task_manager_h = "hiqp_controllers/include/hiqp/task_manager.h"
  /\ \E op \in {"activateTask_found", "deactivateTask_found"} : goto("service", op)
  /\ UNCHANGED <<task_name_, priority_, active_, visible_, def_, dyn_, last,
                 ever_ok, linked, prim_vars, resource_mutex_, task_manager_h, reg_vars>>

\* the inline activateTask and deactivateTask of hiqp_controllers:
\* ->second->setActive(true), ->second->setActive(false)
InlineActivateTask_setActive ==
  /\ Running /\ pc["service"] \in {"activateTask_found", "deactivateTask_found"}
  /\ active_' = (pc["service"] = "activateTask_found")
  /\ goto("service", "idle")
  /\ UNCHANGED <<task_name_, priority_, visible_, def_, dyn_, last,
                 ever_ok, linked, prim_vars, resource_mutex_, task_manager_h, reg_vars>>

NextMgr ==
  \/ GetVelocityControls_lock \/ GetVelocityControls_update
  \/ GetVelocityControls_solve
  \/ SetTask_lock \/ SetTask_constructDefinition \/ SetTask_init \/ SetTask_unlock
  \/ ActivateTask_lock \/ ActivateTask_setActive
  \/ InlineActivateTask_find \/ InlineActivateTask_setActive

SpecMgr == InitMgr /\ [][NextMgr]_vars

----------------------------------------------------------------------------
(* The task registry of the TaskManager *)

\* A TaskManager by itself, with one caller after the other: setTask,
\* removeTask, activateTask, deactivateTask and getVelocityControls on the
\* registry task_map_, a std::map from names to Tasks, held here as the set
\* of its (first, second) pairs.

TaskNames == {"t1", "t2"}

\* the place of a name in the order of the map's keys
NameRank == ("t1" :> 1) @@ ("t2" :> 2)

\* a Task nothing has been called on
NewTask(name) ==
  [task_name_ |-> name, priority_ |-> 0, active_ |-> FALSE, visible_ |-> FALSE,
   def_ |-> NoObj, dyn_ |-> NoObj]

\* task_map_.find(name) != task_map_.end()
contains(map, name) == \E kv \in map : kv.first = name

\* task_map_.find(name)->second, for a name the map contains
find(map, name) == (CHOOSE kv \in map : kv.first = name).second

\* task_map_.emplace(name, task): adds the pair when the map has no such key
emplace(map, name, task) ==
  IF contains(map, name) THEN map ELSE map \cup {[first |-> name, second |-> task]}

\* task_map_.erase(name)
erase(map, name) == {kv \in map : kv.first /= name}

\* the map after the Task it holds under name, a shared object, became task
assign(map, name, task) ==
  {IF kv.first = name THEN [first |-> name, second |-> task] ELSE kv : kv \in map}

\* the arguments of the calls of setTask: name, priority, def_params and
\* dyn_params; visible and active are true
RegSetTaskInputs ==
  {[task_name |-> "t1", priority |-> 1, def_params |-> <<"TDefFullPose">>,
    dyn_params |-> <<"TDynFirstOrder", "1.0">>],
   [task_name |-> "t1", priority |-> 2, def_params |-> <<"TDefAvoidCollisionsSDF", "p1">>,
    dyn_params |-> <<"TDynFirstOrder", "1.0">>],
   [task_name |-> "t1", priority |-> 1,
    def_params |-> <<"TDefAvoidCollisionsSDF", "p1", "nope">>,
    dyn_params |-> <<"TDynFirstOrder", "1.0">>],
   [task_name |-> "t2", priority |-> 1, def_params |-> <<"TDefAvoidCollisionsSDF", "p1", "s1">>,
    dyn_params |-> <<"TDynFirstOrder", "1.0">>]}

\* what the code outside src/ answers during the init of one setTask
RegInitAnswers == {[defOk |-> TRUE, dim |-> 1, dynOk |-> TRUE]}

\* what the collaborators answer to one task during one cycle: the answers
\* of the definitions and dynamics outside src/, and the answer given for
\* every primitive of an SDF definition; all succeed, or the definition's
\* update fails (for an SDF definition, in the FK call), or the collision
\* checker reports success and delivers no gradient
RegCycleAnswers ==
  {[defOk |-> TRUE, dynOk |-> TRUE, sdf |-> Answer(TRUE, TRUE, TRUE, <<"valid">>)],
   [defOk |-> FALSE, dynOk |-> FALSE, sdf |-> Answer(FALSE, TRUE, TRUE, <<"valid">>)],
   [defOk |-> TRUE, dynOk |-> TRUE, sdf |-> Answer(TRUE, TRUE, TRUE, << >>)]}

\* the Task setTask works on, after Task::init: the one the map holds under
\* the name, else a new one; it has the attributes given to setTask, which
\* init hands on to def_ and dyn_
initialisedTask(old, in, a) ==
  CHOOSE i \in
    {[ret |-> r.ret,
      task |-> [task_name_ |-> in.task_name, priority_ |-> in.priority,
                active_ |-> TRUE, visible_ |-> TRUE, def_ |-> r.def, dyn_ |-> r.dyn]] :
       r \in {Task_init(in.def_params, in.dyn_params, old.def_, old.dyn_,
                        in.task_name, in.priority, TRUE, TRUE,
                        a.defOk, a.dim, a.dynOk)}} : TRUE

\* TaskManager::setTask: the Task of that name is re-created in place, or a
\* new Task is created and, when its init succeeded, added to the map
setTask(map, in, a) ==
  IF contains(map, in.task_name)
  THEN CHOOSE out \in
         {[ret |-> i.ret, map |-> assign(map, in.task_name, i.task)] :
            i \in {initialisedTask(find(map, in.task_name), in, a)}} : TRUE
  ELSE CHOOSE out \in
         {[ret |-> i.ret,
           map |-> IF i.ret = 0 THEN emplace(map, in.task_name, i.task) ELSE map] :
            i \in {initialisedTask(NewTask(in.task_name), in, a)}} : TRUE

\* TaskManager::removeTask
removeTask(map, name) ==
  IF contains(map, name) THEN [ret |-> 0, map |-> erase(map, name)]
  ELSE [ret |-> -1, map |-> map]

\* Task::setActive on the Task the map holds under name
setActive(map, name, active) ==
  assign(map, name, [find(map, name) EXCEPT !.active_ = active])

\* TaskManager::activateTask and deactivateTask of hiqp_core: a name the map
\* does not hold is refused
activateTask(map, name, active) ==
  IF contains(map, name)
  THEN [outcome |-> "returned", ret |-> 0, map |-> setActive(map, name, active)]
  ELSE [outcome |-> "returned", ret |-> -1, map |-> map]

\* the inline activateTask and deactivateTask of hiqp_controllers, which
\* return nothing: task_map_.find(name)->second->setActive(active). For a
\* name the map does not hold, find returns end(), and the call goes through
\* whatever lies behind it: the process is killed, or the flag is written
\* to memory that is no Task, or to the Task `victim` of the map.
InlineActivateTask(map, name, active, killed, victim) ==
  IF contains(map, name)
  THEN [outcome |-> "returned", ret |-> 0, map |-> setActive(map, name, active)]
  ELSE IF killed THEN [outcome |-> "abort", ret |-> 0, map |-> map]
  ELSE IF contains(map, victim)
    THEN [outcome |-> "returned", ret |-> 0, map |-> setActive(map, victim, active)]
  ELSE [outcome |-> "returned", ret |-> 0, map |-> map]

\* the names of the active Tasks of the map
activeTasks(map) == {kv.first : kv \in {x \in map : x.second.active_}}

\* the names of the map by ascending priority, and by key among equals
RECURSIVE ascending(_)
ascending(map) ==
  IF map = {} THEN << >>
  ELSE LET kv == CHOOSE x \in map : \A y \in map :
                   \/ x.second.priority_ < y.second.priority_
                   \/ /\ x.second.priority_ = y.second.priority_
                      /\ NameRank[x.first] <= NameRank[y.first]
       IN <<kv.first>> \o ascending(map \ {kv})

\* solver_->appendStage: what a Task contributes to the solve
Stage(task) ==
  [task_name_ |-> task.task_name_, priority_ |-> task.priority_,
   e_dot_star_ |-> task.dyn_.e_dot_star_, J_ |-> task.def_.J_,
   task_types_ |-> task.def_.task_types_]

\* the loop of getVelocityControls over the Tasks: Task::update on every
\* active Task; a Task whose update returned 0 gets a stage in the solver.
\* An update that kills the process ends the cycle there.
RECURSIVE updateTasks(_, _, _, _)
updateTasks(map, order, answers, i) ==
  IF i > Len(order)
  THEN [outcome |-> "returned", map |-> map, updated |-> << >>, stages |-> << >>]
  ELSE LET task == find(map, order[i]) IN
    IF ~ task.active_ THEN updateTasks(map, order, answers, i + 1)
    ELSE LET a == answers[order[i]]
             n == IF task.def_ = NoObj THEN 0 ELSE Len(task.def_.primitives_)
         IN CHOOSE out \in
              {LET t2 == [task EXCEPT !.def_ = r.def, !.dyn_ = r.dyn]
                   u == [task_name_ |-> order[i], ret |-> r.ret]
               IN IF r.outcome = "abort"
                  THEN [outcome |-> "abort", map |-> assign(map, order[i], t2),
                        updated |-> <<u>>, stages |-> << >>]
                  ELSE [updateTasks(assign(map, order[i], t2), order, answers, i + 1)
                          EXCEPT !.updated = <<u>> \o @,
                                 !.stages = (IF r.ret = 0 THEN <<Stage(t2)>>
                                             ELSE << >>) \o @] :
                 r \in {Task_update(task.def_, task.dyn_, a.defOk, a.dynOk,
                                    [j \in Joints |-> TRUE],
                                    [k \in 1..n |-> a.sdf])}} : TRUE

\* the record of a call on the TaskManager: its arguments (for setTask, in
\* and the answers a given to its init), how it ended, whether the map held
\* the name, the Task it held under it and which Tasks were active when the
\* call started, whether the map is what it was, and, for a cycle, the
\* Tasks it updated with the results
RegCall(op, name, in, a, outcome, ret, map, updated) ==
  [op |-> op, task_name |-> name, in |-> in, a |-> a,
   outcome |-> outcome, ret |-> ret,
   pre_known |-> contains(task_map_, name),
   pre_task |-> (IF contains(task_map_, name) THEN find(task_map_, name)
                 ELSE NewTask(name)),
   pre_active |-> activeTasks(task_map_),
   same |-> (map = task_map_),
   updated |-> updated]

NoInput == [task_name |-> "", priority |-> 0, def_params |-> << >>, dyn_params |-> << >>]

NoAnswer == [defOk |-> FALSE, dim |-> 0, dynOk |-> FALSE]

InitReg ==
  /\ task_name_ = "t1"
  /\ priority_ = 1
  /\ active_ = TRUE
  /\ visible_ = TRUE
  /\ def_ = NoObj
  /\ dyn_ = NoObj
  /\ last = [op |-> "none", task_name |-> "", in |-> NoInput, a |-> NoAnswer,
             outcome |-> "returned", ret |-> 0, pre_known |-> FALSE,
             pre_task |-> NewTask(""),
             pre_active |-> {}, same |-> TRUE, updated |-> << >>]
  /\ ever_ok = FALSE
  /\ linked = "tasks/task_avoid_collisions_sdf.cpp"
  /\ NoPrimitives
  /\ pc = [t \in Threads |-> "idle"]
  /\ resource_mutex_ = "unlocked"
  /\ task_manager_h \in TaskManagerHeaders
  /\ task_map_ = {}
  /\ solver_ = << >>

\* manager.setTask(...)
RegSetTask ==
  /\ Alive
  /\ \E in \in RegSetTaskInputs, a \in RegInitAnswers :
       \E r \in {setTask(task_map_, in, a)} :
          /\ task_map_' = r.map
          /\ last' = RegCall("setTask", in.task_name, in, a, "returned", r.ret,
                             r.map, << >>)
  /\ UNCHANGED <<task_name_, priority_, active_, visible_, def_, dyn_, ever_ok,
                 linked, prim_vars, mgr_vars, solver_>>

\* manager.removeTask(name)
RegRemoveTask ==
  /\ Alive
  /\ \E name \in TaskNames :
       \E r \in {removeTask(task_map_, name)} :
          /\ task_map_' = r.map
          /\ last' = RegCall("removeTask", name, NoInput, NoAnswer, "returned",
                             r.ret, r.map, << >>)
  /\ UNCHANGED <<task_name_, priority_, active_, visible_, def_, dyn_, ever_ok,
                 linked, prim_vars, mgr_vars, solver_>>

\* manager.activateTask(name) and manager.deactivateTask(name) of hiqp_core
RegActivateTask ==
  /\ Alive
  /\ task_manager_h = "hiqp_core/include/hiqp/task_manager.h"
  /\ \E name \in TaskNames, active \in BOOLEAN :
       \E r \in {activateTask(task_map_, name, active)} :
          /\ task_map_' = r.map
          /\ last' = RegCall(IF active THEN "activateTask" ELSE "deactivateTask",
                             name, NoInput, NoAnswer, r.outcome, r.ret, r.map, << >>)
  /\ UNCHANGED <<task_name_, priority_, active_, visible_, def_, dyn_, ever_ok,
                 linked, prim_vars, mgr_vars, solver_>>

\* manager.activateTask(name) and manager.deactivateTask(name) of
\* hiqp_controllers
RegInlineActivateTask ==
  /\ Alive
  /\ task_manager_h = "hiqp_controllers/include/hiqp/task_manager.h"
  /\ \E name \in TaskNames, active \in BOOLEAN, killed \in BOOLEAN,
        victim \in TaskNames :
       \E r \in {InlineActivateTask(task_map_, name, active, killed, victim)} :
          /\ task_map_' = r.map
          /\ last' = RegCall(IF active THEN "activateTask" ELSE "deactivateTask",
                             name, NoInput, NoAnswer, r.outcome, r.ret, r.map, << >>)
  /\ UNCHANGED <<task_name_, priority_, active_, visible_, def_, dyn_, ever_ok,
                 linked, prim_vars, mgr_vars, solver_>>

\* manager.getVelocityControls(robot_state, controls): the Tasks are
\* updated and the stages of those that succeeded are given to the solver
RegGetVelocityControls ==
  /\ Alive
  /\ \E answers \in [activeTasks(task_map_) -> RegCycleAnswers] :
       \E r \in {updateTasks(task_map_, ascending(task_map_), answers, 1)} :
          /\ task_map_' = r.map
          /\ solver_' = r.stages
          /\ last' = RegCall("getVelocityControls", "", NoInput, NoAnswer,
                             r.outcome, 0, r.map, r.updated)
  /\ UNCHANGED <<task_name_, priority_, active_, visible_, def_, dyn_, ever_ok,
                 linked, prim_vars, mgr_vars>>

NextReg ==
  \/ RegSetTask \/ RegRemoveTask \/ RegActivateTask \/ RegInlineActivateTask
  \/ RegGetVelocityControls

SpecReg == InitReg /\ [][NextReg]_vars

----------------------------------------------------------------------------
(* The hierarchical solver *)

MaxLevels == 3      \* most priority levels in one solve
MaxVel == 1         \* joint velocities are the integers of -MaxVel..MaxVel

\* a priority level as the manager hands it to the solver: stacked Jacobian,
\* desired derivative and constraint type per row (0 EQUALITY,
\* 1 GREATER_OR_EQUAL, -1 LESS_OR_EQUAL); here one row per level, on the
\* first joint alone or on all joints, an equality or an inequality of
\* target 1 or an inequality of a target no single joint reaches
Levels ==
  {[J_ |-> <<row>>, e_dot_star_ |-> <<t[1]>>, task_types_ |-> <<t[2]>>] :
     row \in {[j \in Joints |-> IF j = 1 THEN 1 ELSE 0], [j \in Joints |-> 1]},
     t \in {<<1, 0>>, <<1, 1>>, <<MaxVel + 1, 1>>}}

\* row . q_dot, summed over the joints 1..n
RECURSIVE dot(_, _, _)
dot(row, q_dot, n) ==
  IF n = 0 THEN 0 ELSE row[n] * q_dot[n] + dot(row, q_dot, n - 1)

\* J . q_dot: the task-function derivatives of a level under q_dot
derivatives(level, q_dot) ==
  [i \in 1..Len(level.J_) |-> dot(level.J_[i], q_dot, NumJoints)]

\* the rows of a level hold under q_dot: equality rows exactly, inequality
\* rows on their side
rowsHold(level, q_dot) ==
  \A i \in 1..Len(level.J_) :
    LET e_dot == dot(level.J_[i], q_dot, NumJoints) IN
    CASE level.task_types_[i] = 0 -> e_dot = level.e_dot_star_[i]
      [] level.task_types_[i] = 1 -> e_dot >= level.e_dot_star_[i]
      [] OTHER -> e_dot <= level.e_dot_star_[i]

\* the derivatives the levels solved so far achieved stay what they are
keepsAchieved(s, q_dot) ==
  \A i \in 1..Len(s.solved) :
    derivatives(s.levels[s.solved[i]], q_dot) = s.achieved[i]

\* a QP that leaves out the constraints of the levels solved before
solutions_unconstrained(s, p) == {q_dot \in [Joints -> -MaxVel..MaxVel] : rowsHold(s.levels[p], q_dot)}

\* the solutions of the QP of level p: the rows of the level hold and all
\* levels solved before keep their derivatives
solutions(s, p) ==
  {q_dot \in [Joints -> -MaxVel..MaxVel] : rowsHold(s.levels[p], q_dot) /\ keepsAchieved(s, q_dot)}

\* the tie-break of the QP solver's regularisation: of the solutions, those
\* of the least squared norm
regularised(S) ==
  UNION {UNION {{q_dot \in T : \A o \in N : dot(q_dot, q_dot, NumJoints) <= o} :
                  N \in {{dot(q_dot, q_dot, NumJoints) : q_dot \in T}}} : T \in {S}}

\* the priority numbers of the levels not yet solved, and the one that is next
pending(s) == DOMAIN s.levels \ {s.solved[i] : i \in 1..Len(s.solved)}
nextLevel(s) == CHOOSE p \in pending(s) : \A o \in pending(s) : p <= o

\* the solver before the first level, given a level for each priority
\* number in use (the first n numbers, or the first and the last): no prior
\* constraints, no controls
InitSolve ==
  /\ task_name_ = "t1"
  /\ priority_ = 1
  /\ active_ = TRUE
  /\ visible_ = TRUE
  /\ def_ = NoObj
  /\ dyn_ = NoObj
  /\ ever_ok = FALSE
  /\ linked = "tasks/task_avoid_collisions_sdf.cpp"
  /\ last = [op |-> "none", outcome |-> "returned"]
  /\ NoPrimitives /\ NoManager
  /\ task_map_ = {}
  /\ \E P \in {1..n : n \in 1..MaxLevels} \cup {{1, MaxLevels}} :
     \E levels \in [P -> Levels] :
       solver_ = [levels |-> levels, status |-> "solving", solved |-> << >>,
                  achieved |-> << >>, controls |-> << >>, infeasible_at |-> 0]

\* the next level is solved: its solution becomes the controls
SolveLevel ==
  /\ solver_.status = "solving"
  /\ \E p \in {nextLevel(solver_)} :
       \E q_dot \in regularised(solutions(solver_, p)) :
         \E s \in {[solver_ EXCEPT
                      !.solved = Append(@, p),
                      !.achieved = Append(@, derivatives(solver_.levels[p], q_dot)),
                      !.controls = q_dot]} :
           /\ solver_' = [s EXCEPT !.status = IF pending(s) = {} THEN "solved"
                                              ELSE "solving"]
           /\ last' = [op |-> "solveLevel", outcome |-> "returned"]
  /\ UNCHANGED <<task_name_, priority_, active_, visible_, def_, dyn_, ever_ok,
                 linked, prim_vars, mgr_vars, task_map_>>

\* the next level has no solution: the solver reports it and the controls
\* stay those of the last level that had one
LevelInfeasible ==
  /\ solver_.status = "solving"
  /\ solutions(solver_, nextLevel(solver_)) = {}
  /\ solver_' = [solver_ EXCEPT !.status = "infeasible",
                                !.infeasible_at = nextLevel(solver_)]
  /\ last' = [op |-> "levelInfeasible", outcome |-> "returned"]
  /\ UNCHANGED <<task_name_, priority_, active_, visible_, def_, dyn_, ever_ok,
                 linked, prim_vars, mgr_vars, task_map_>>

NextSolve == SolveLevel \/ LevelInfeasible

\* the solve is one call: it goes on until it ends
SpecSolve == InitSolve /\ [][NextSolve]_vars /\ WF_vars(NextSolve)

\* one call of init, with every combination of tokens, on a new Task
NextFirst == CallFirstInit

SpecFirst == Init /\ [][NextFirst]_vars

----------------------------------------------------------------------------
(* Properties *)

InitCalled == last.op = "init"
UpdateCalled == last.op = "update"
Succeeded == last.outcome = "returned" /\ last.ret = 0

\* the dimensions of the Task agree: e, the rows of J, the task types and
\* e_dot_star have one size, and J has one column for each joint
Consistent ==
  /\ def_ /= NoObj /\ dyn_ /= NoObj
  /\ Len(def_.e_) = Len(def_.J_)
  /\ Len(def_.J_) = Len(def_.task_types_)
  /\ Len(def_.task_types_) = Len(dyn_.e_dot_star_)
  /\ def_.J_cols = NumJoints
  /\ \A k \in 1..Len(def_.J_) : Len(def_.J_[k]) = NumJoints

\* C1: init called with an empty def_params list returns -1, whatever
\* dyn_params is, makes no sub-call (constructs nothing) and leaves def_ and
\* dyn_ exactly what they were.
C1_EmptyDefParams ==
  (InitCalled /\ last.def_params = << >>) =>
    /\ last.outcome = "returned" /\ last.ret = -1
    /\ last.calls = << >>
    /\ last.def_same /\ last.dyn_same

\* init with an empty def_params and a non-empty dyn_params on a Task that
\* holds a definition and a dynamics
C1_Witness ==
  /\ InitCalled /\ last.def_params = << >> /\ last.dyn_params /= << >>
  /\ last.pre_objects /\ last.ret = -1

\* C2: after an update that returned 0 the dimensions of the Task agree, for
\* the definitions outside src/ and for TaskAvoidCollisionsSDF.
C2_ConsistentAfterUpdate ==
  (UpdateCalled /\ Succeeded) => Consistent

\* a successful update of an SDF task with two primitives
C2_Witness ==
  /\ UpdateCalled /\ Succeeded
  /\ def_.class = "TaskAvoidCollisionsSDF" /\ Len(def_.e_) = 2

\* C3: whenever init returns 0 the dimensions of the Task agree (an init
\* that leaves them inconsistent is to fail with a dimension mismatch).
C3_ConsistentAfterInit ==
  (InitCalled /\ Succeeded) => Consistent

\* C4: update on an inactive Task (one that init has set up) returns 0,
\* calls neither Definition.update nor Dynamics.update and changes nothing.
C4_InactiveUpdateIsNoOp ==
  (UpdateCalled /\ ~ last.pre_active /\ last.pre_objects) =>
    /\ Succeeded
    /\ last.calls = << >>
    /\ last.def_same /\ last.dyn_same

\* C5: an update of a Task that holds a definition and a dynamics calls
\* Definition.update once, first; when that fails it calls nothing else and
\* returns a non-zero code; when it succeeds it calls Dynamics.update once,
\* and returns 0 exactly when that succeeds too.
C5_UpdateSequence ==
  (UpdateCalled /\ last.pre_objects /\ last.outcome = "returned") =>
    /\ Len(last.calls) >= 1
    /\ last.calls[1].fn = "def.update"
    /\ IF last.calls[1].rc /= 0
       THEN Len(last.calls) = 1 /\ last.ret /= 0
       ELSE /\ Len(last.calls) = 2
            /\ last.calls[2].fn = "dyn.update"
            /\ (last.ret = 0) <=> (last.calls[2].rc = 0)

\* an update of an active Task whose Definition.update failed
C5_Witness ==
  /\ UpdateCalled /\ last.pre_active /\ last.pre_objects
  /\ last.outcome = "returned"
  /\ Len(last.calls) = 1 /\ last.calls[1].rc /= 0 /\ last.ret /= 0

\* C6: an init that fails, on a Task that an earlier init set up with
\* success, leaves the Task holding the same Definition and Dynamics objects.
C6_FailedInitKeepsObjects ==
  (InitCalled /\ last.pre_ok /\ ~ Succeeded) => (last.def_same /\ last.dyn_same)

\* C7: every call of init ends by returning a code; none ends in an
\* exception or kills the process.
C7_InitAlwaysReturns ==
  InitCalled => (last.outcome = "returned" /\ last.ret <= 0)

\* C8: init succeeds, and constructs a Definition or a Dynamics, only for
\* the documented first tokens; any other first token makes it fail and
\* constructs nothing for that list.
C8_UnknownTokensRejected ==
  LET defKnown == Len(last.def_params) > 0 /\
                  last.def_params[1] \in {"TDefFullPose", "TDefJntConfig",
                     "TDefJntLimits", "TDefGeomProj", "TDefGeomAlign",
                     "TDefAvoidCollisionsSDF"}
      dynKnown == Len(last.dyn_params) > 0 /\
                  last.dyn_params[1] \in {"TDynFirstOrder", "TDynJntLimits",
                     "TDynMinJerk"}
  IN InitCalled =>
       /\ Succeeded => (defKnown /\ dynKnown)
       /\ ~ defKnown => (~ Succeeded /\ last.def_same)
       /\ ~ dynKnown => (~ Succeeded /\ last.dyn_same)

\* init with a known definition token and a dynamics token of the wrong case
C8_Witness ==
  /\ InitCalled /\ last.def_params = <<"TDefJntLimits">>
  /\ last.dyn_params = <<"tdynfirstorder", "1.0">>
  /\ last.ret = -4 /\ last.dyn_same

\* which of the two error kinds an argument pair of init falls under first,
\* judged by the tokens alone
FailureClass(def_params, dyn_params) ==
  IF Len(def_params) = 0 \/ Len(dyn_params) = 0 THEN "none"
  ELSE IF def_params[1] \notin DefTypeTokens THEN "UnknownTaskType"
  ELSE IF def_params[1] \in {"TDefGeomProj", "TDefGeomAlign"}
    THEN (IF Len(def_params) < 3 THEN "none"
          ELSE IF <<def_params[2], def_params[3]>> \notin
                    (IF def_params[1] = "TDefGeomProj" THEN ProjectionPairs
                     ELSE AlignmentPairs)
            THEN "UnsupportedPrimitivePair"
          ELSE IF dyn_params[1] \notin DynTypeTokens THEN "UnknownTaskType"
          ELSE "none")
  ELSE IF dyn_params[1] \notin DynTypeTokens THEN "UnknownTaskType"
  ELSE "none"

\* C9: an init that fails on an unrecognised type token and an init that
\* fails on an unsupported primitive pair return different codes: of two
\* calls in a row, one of each kind, the second does not return the code of
\* the first.
C9_DistinctErrorCodes ==
  [][(/\ last.op = "init" /\ last.outcome = "returned"
      /\ FailureClass(last.def_params, last.dyn_params) = "UnknownTaskType"
      /\ last'.op = "init" /\ last'.outcome = "returned"
      /\ FailureClass(last'.def_params, last'.dyn_params) = "UnsupportedPrimitivePair")
     => last'.ret /= last.ret]_vars

\* C10: after an init that returned 0 the name, priority, active and visible
\* attributes of the Definition and of the Dynamics are those of the Task.
C10_AttributesPropagated ==
  (InitCalled /\ Succeeded) =>
    /\ def_.task_name_ = task_name_ /\ dyn_.task_name_ = task_name_
    /\ def_.priority_ = priority_ /\ dyn_.priority_ = priority_
    /\ def_.active_ = active_ /\ dyn_.active_ = active_
    /\ def_.visible_ = visible_ /\ dyn_.visible_ = visible_

\* a successful init of an inactive Task
C10_Witness ==
  InitCalled /\ Succeeded /\ ~ active_ /\ visible_ /\ task_name_ = "t1"

----------------------------------------------------------------------------
(* Properties of TaskAvoidCollisionsSDF, under SpecSDF *)

SDFInitCalled == last.op = "init"
SDFUpdateCalled == last.op = "update"

\* the collaborators did their part for primitive i of the last update: both
\* solver calls and obstacleGradientBulk succeeded and one gradient came back
Served(i) ==
  /\ last.answers[i].fk /\ last.answers[i].jac /\ last.answers[i].bulk
  /\ Len(last.answers[i].gradients) = 1

\* a collaborator failed for primitive i of the last update
Failed(i) ==
  ~ last.answers[i].fk \/ ~ last.answers[i].jac \/ ~ last.answers[i].bulk

\* the row of J_ the projection onto a valid gradient gives
ProjectedRow == [j \in Joints |-> IF last.writable[j] THEN 1 ELSE 0]

ZeroRow == [j \in Joints |-> 0]

\* C11: in an update of an initialised definition where every collaborator
\* call succeeds, a gradient flagged invalid does not fail the update: update
\* returns 0, the row of J for that sample is all zeros and its entry of e is
\* 0, and the rows of the samples with a valid gradient are the projected
\* Jacobian rows and the distances.
C11_InvalidGradientZeroRow ==
  (SDFUpdateCalled /\ def_.fk_solver_
     /\ \A i \in 1..Len(last.answers) : Served(i)) =>
    /\ last.outcome = "returned" /\ last.ret = 0
    /\ Len(def_.e_) = Len(last.answers) /\ Len(def_.J_) = Len(last.answers)
    /\ \A i \in 1..Len(last.answers) :
         IF last.answers[i].gradients[1] = "invalid"
         THEN def_.J_[i] = ZeroRow /\ def_.e_[i] = "0"
         ELSE /\ def_.J_[i] = ProjectedRow
              /\ def_.e_[i] = functionValue("valid",
                                GeometricPrimitiveMap[def_.primitives_[i]].type)

\* an update of two primitives, every joint writable: the gradient of the
\* first is invalid, that of the second valid
C11_Witness ==
  /\ SDFUpdateCalled /\ last.ret = 0 /\ Len(last.answers) = 2
  /\ last.answers[1].gradients = <<"invalid">>
  /\ last.answers[2].gradients = <<"valid">>
  /\ \A j \in Joints : last.writable[j]
  /\ def_.J_[1] = ZeroRow /\ def_.J_[2] /= ZeroRow /\ def_.e_[1] = "0"

\* C12: after an init that returned 0, task_types has one entry for each
\* primitive named in the parameters and every entry is 1 (greater or equal);
\* after an update that returned 0, e and J have one row for each primitive.
C12_OneGeqRowPerPrimitive ==
  /\ (SDFInitCalled /\ last.ret = 0) =>
       /\ Len(def_.primitives_) = Len(last.parameters) - 1
       /\ Len(def_.task_types_) = Len(last.parameters) - 1
       /\ \A k \in 1..Len(def_.task_types_) : def_.task_types_[k] = 1
  /\ (SDFUpdateCalled /\ last.outcome = "returned" /\ last.ret = 0) =>
       /\ Len(def_.e_) = Len(def_.primitives_)
       /\ Len(def_.J_) = Len(def_.primitives_)

\* C13: after an update that returned 0, the column of J of every joint that
\* is not writable is zero in every row.
C13_JointMasking ==
  (SDFUpdateCalled /\ last.outcome = "returned" /\ last.ret = 0) =>
    \A k \in 1..Len(def_.J_) : \A j \in Joints :
      ~ last.writable[j] => def_.J_[k][j] = 0

\* an update with a joint that is not writable and a valid gradient: the row
\* is zero in that joint's column and not in the others
C13_Witness ==
  /\ SDFUpdateCalled /\ last.outcome = "returned" /\ last.ret = 0
  /\ Len(def_.J_) >= 1
  /\ \E j \in Joints : ~ last.writable[j] /\ def_.J_[1][j] = 0
  /\ \E j \in Joints : last.writable[j] /\ def_.J_[1][j] /= 0

\* C14: when, in an update of an initialised definition, a collaborator
\* fails for primitive i (the solvers or obstacleGradientBulk) after the
\* primitives before it were served, update returns a non-zero code (the
\* process is not killed) and makes no call for a primitive after i.
C14_CollaboratorFailure ==
  (SDFUpdateCalled /\ def_.fk_solver_) =>
    \A i \in 1..Len(last.answers) :
      (Failed(i) /\ \A k \in 1..(i - 1) : Served(k)) =>
        /\ last.outcome = "returned" /\ last.ret /= 0
        /\ \A n \in 1..Len(last.queries) : last.queries[n].primitive <= i

\* an update of two primitives where obstacleGradientBulk returns false for
\* the first: nothing is asked for the second
C14_Witness ==
  /\ SDFUpdateCalled /\ Len(last.answers) = 2
  /\ last.answers[1].fk /\ last.answers[1].jac /\ ~ last.answers[1].bulk
  /\ last.ret = -2
  /\ Len(last.queries) = 3 /\ last.queries[3].fn = "obstacleGradientBulk"
  /\ \A n \in 1..Len(last.queries) : last.queries[n].primitive = 1

\* C15: an update of an initialised definition ends by returning a status
\* code, whatever the provider delivers: the process is never killed.
C15_UpdateNeverAborts ==
  (SDFUpdateCalled /\ def_.fk_solver_) => last.outcome = "returned"

----------------------------------------------------------------------------
(* Properties of the collision checker's lifecycle, under SpecLife *)

\* C16: the checker of the definition the Task holds has received init() and
\* then activate(), once each, and nothing else; the checker of every
\* definition a call destroyed (in a re-init, also one that failed after the
\* definition was constructed, or with the Task) has received deactivate()
\* once, after them; no other checker is left activated, none at all once the
\* Task is destroyed; an update sends obstacleGradientBulk only to a checker
\* that was not deactivated.
C16_CheckerLifecycle ==
  /\ IsSDF(def_) => def_.collision_checker_ = <<"init", "activate">>
  /\ \A k \in 1..Len(last.destroyed) :
       IsSDF(last.destroyed[k]) =>
         last.destroyed[k].collision_checker_ = <<"init", "activate", "deactivate">>
  /\ last.live = (IF IsSDF(def_) THEN 1 ELSE 0)
  /\ last.op = "destroy" => last.live = 0
  /\ \A k \in 1..Len(last.queried) : last.queried[k] /= "deactivate"

\* a re-init that replaced one SDF definition by another and then failed in
\* the initialisation of the new one
C16_Witness ==
  /\ last.op = "init" /\ last.ret = -5
  /\ Len(last.destroyed) = 1 /\ IsSDF(last.destroyed[1])
  /\ IsSDF(def_) /\ last.live = 1

----------------------------------------------------------------------------
(* Properties of the geometric primitives, under SpecPrim *)

PointInitCalled == last.op = "point.init"
BoxInitCalled == last.op = "box.init"

\* C17: GeometricPoint::init returns 0 exactly for a parameter vector of
\* length 3 and GeometricBox::init exactly for one of length 6, 9 or 10;
\* for every other length, 0 included, they return -1.
C17_InitArity ==
  /\ PointInitCalled =>
       IF Len(last.parameters) = 3 THEN last.ret = 0 ELSE last.ret = -1
  /\ BoxInitCalled =>
       IF Len(last.parameters) \in {6, 9, 10} THEN last.ret = 0 ELSE last.ret = -1

\* a box init with eleven parameters failed
C17_Witness ==
  BoxInitCalled /\ Len(last.parameters) = 11 /\ last.ret = -1

\* C18: after an init with a parameter vector of a valid length, init has
\* returned 0 and the accessors return the parameters: getX/Y/Z of a point
\* the parameters 0..2; getCenterX/Y/Z of a box the parameters 0..2,
\* getDimX/Y/Z the parameters 3..5 and, with 10 parameters, getQuaternion
\* (w, x, y, z) the parameters 6..9.
C18_RoundTrip ==
  /\ (PointInitCalled /\ Len(last.parameters) = 3) =>
       /\ last.ret = 0
       /\ <<getX(point), getY(point), getZ(point)>> = last.parameters
  /\ (BoxInitCalled /\ Len(last.parameters) \in {6, 9, 10}) =>
       /\ last.ret = 0
       /\ <<getCenterX(box), getCenterY(box), getCenterZ(box)>>
            = SubSeq(last.parameters, 1, 3)
       /\ <<getDimX(box), getDimY(box), getDimZ(box)>> = SubSeq(last.parameters, 4, 6)
       /\ Len(last.parameters) = 10 => getQuaternion(box) = SubSeq(last.parameters, 7, 10)

\* a box init with ten parameters on a box that held other values
C18_Witness ==
  /\ BoxInitCalled /\ Len(last.parameters) = 10 /\ last.ret = 0
  /\ last.pre_box.kdl_c_ /= <<0, 0, 0>> /\ last.pre_box.kdl_c_ /= box.kdl_c_
  /\ getQuaternion(box) = <<last.parameters[7], last.parameters[8],
                            last.parameters[9], last.parameters[10]>>

\* C19: an init with a parameter vector of an invalid length fails and
\* leaves every member of the primitive, so every accessor's value, as it
\* was before the call.
C19_FailedInitKeepsState ==
  /\ (PointInitCalled /\ Len(last.parameters) /= 3) =>
       last.ret /= 0 /\ point = last.pre_point
  /\ (BoxInitCalled /\ Len(last.parameters) \notin {6, 9, 10}) =>
       last.ret /= 0 /\ box = last.pre_box

\* a failed init, with seven parameters, of a box initialised before
C19_Witness ==
  /\ BoxInitCalled /\ Len(last.parameters) = 7 /\ last.ret = -1
  /\ box.kdl_c_ /= <<0, 0, 0>> /\ box.kdl_c_ /= SubSeq(last.parameters, 1, 3)
  /\ box = last.pre_box

----------------------------------------------------------------------------
(* Properties of the TaskManager's locking, under SpecMgr *)

\* the control thread is in getVelocityControls, between taking the mutex and
\* giving it back
InGetVelocityControls == pc["control"] \in {"update", "solve"}

\* the service thread is in an operation that changes the registry
InRegistryOperation == pc["service"] /= "idle"

\* the Task has a new definition that init has not initialised, next to the
\* dynamics it had before
HalfConstructed == pc["service"] = "setTask_constructed"

\* C20: the operations that change the registry (setTask, activateTask,
\* deactivateTask) and getVelocityControls exclude each other: the service
\* thread is never in one of them while the control thread is in its update
\* and solve; so the update and solve never see a task that is half
\* constructed.
C20_ManagerOperationsExclusive ==
  /\ ~ (InGetVelocityControls /\ InRegistryOperation)
  /\ InGetVelocityControls => ~ HalfConstructed

----------------------------------------------------------------------------
(* Properties of the task registry, under SpecReg *)

ActivateCalled == last.op \in {"activateTask", "deactivateTask"}

\* C21: activateTask and deactivateTask called with a name the registry does
\* not hold return, report failure and leave the registry as it was.
C21_UnknownNameRefused ==
  (ActivateCalled /\ ~ last.pre_known) =>
    /\ last.outcome = "returned"
    /\ last.ret /= 0
    /\ last.same

SetTaskCalled == last.op = "setTask"

\* C22: the registry holds at most one Task for a name, and after a setTask
\* that succeeded on a name the registry held, the Task of that name is what
\* the same setTask makes of a new Task: its Definition and Dynamics carry
\* nothing of the ones it held before.
C22_RecreatedInPlace ==
  /\ \A x \in task_map_ : \A y \in task_map_ : x.first = y.first => x = y
  /\ (SetTaskCalled /\ last.ret = 0 /\ last.pre_known) =>
       /\ contains(task_map_, last.task_name)
       /\ find(task_map_, last.task_name)
            = initialisedTask(NewTask(last.task_name), last.in, last.a).task

\* a setTask that succeeded on a name whose Task held an SDF definition with
\* a row computed by an update, and gave it a definition of another class
C22_Witness ==
  /\ SetTaskCalled /\ last.ret = 0 /\ last.pre_known
  /\ IsSDF(last.pre_task.def_) /\ Len(last.pre_task.def_.e_) > 0
  /\ ~ IsSDF(find(task_map_, last.task_name).def_)


CycleCalled == last.op = "getVelocityControls"

\* the names of the Tasks a cycle updated, and of those whose update
\* returned 0, in the order of the updates
UpdatedNames == [i \in 1..Len(last.updated) |-> last.updated[i].task_name_]
UpdateSucceeded(u) == u.ret = 0
SucceededNames ==
  LET ok == SelectSeq(last.updated, UpdateSucceeded)
  IN [i \in 1..Len(ok) |-> ok[i].task_name_]
StageNames == [i \in 1..Len(solver_) |-> solver_[i].task_name_]

\* C23: a cycle is never aborted by a Task whose update fails: the cycle
\* returns, it has updated every Task that was active, once each (so also
\* the Tasks that failed in the cycle before), and the solver holds the
\* stages of exactly the Tasks whose update succeeded: those of the failed
\* ones are left out, those of all others are there.
C23_FailedTaskSkipped ==
  CycleCalled =>
    /\ last.outcome = "returned"
    /\ Len(UpdatedNames) = Cardinality(last.pre_active)
    /\ {UpdatedNames[i] : i \in 1..Len(UpdatedNames)} = last.pre_active
    /\ StageNames = SucceededNames


----------------------------------------------------------------------------
(* Properties of the hierarchical solve, under SpecSolve *)

\* the levels were solved by strictly ascending priority number, and none
\* with a lower number than a solved one is left out
SolvedAscending ==
  /\ \A i \in 1..Len(solver_.solved) : \A j \in 1..Len(solver_.solved) :
       i < j => solver_.solved[i] < solver_.solved[j]
  /\ \A p \in pending(solver_) : \A i \in 1..Len(solver_.solved) :
       solver_.solved[i] < p

\* the controls leave every solved level the derivatives it achieved
AchievedKept ==
  /\ Len(solver_.achieved) = Len(solver_.solved)
  /\ solver_.solved /= << >> => keepsAchieved(solver_, solver_.controls)

\* the solve has ended: all levels are solved, or a level was found infeasible
SolveEnded ==
  \/ solver_.status = "solved" /\ pending(solver_) = {}
  \/ /\ solver_.status = "infeasible"
     /\ solver_.infeasible_at \in pending(solver_)
     /\ solutions(solver_, solver_.infeasible_at) = {}

\* C24: the levels are solved in strictly ascending priority number, each
\* once; the solution of a level never changes the derivatives achieved by
\* the levels solved before it; and the solve ends, with all levels solved
\* or with a level found infeasible.
C24_HierarchicalSolve ==
  /\ [](SolvedAscending /\ AchievedKept)
  /\ [](solver_.status /= "solving" => SolveEnded)
  /\ <>SolveEnded

\* a solve of three levels has ended with all solved, where the second and
\* the third level left velocities to choose from that would have changed
\* what the first achieved
C24_Witness ==
  /\ solver_.status = "solved"
  /\ Len(solver_.solved) = MaxLevels
  /\ \E q_dot \in solutions_unconstrained(solver_, solver_.solved[MaxLevels]) :
       ~ keepsAchieved(solver_, q_dot)


----------------------------------------------------------------------------
(* Further properties of TaskAvoidCollisionsSDF, under SpecSDF *)

\* the number of primitives, from the first on, for which the FK call, the
\* Jacobian call and the collision checker all succeeded
RECURSIVE LeadingAnswered(_, _)
LeadingAnswered(answers, i) ==
  IF i > Len(answers) THEN 0
  ELSE IF answers[i].fk /\ answers[i].jac /\ answers[i].bulk
    THEN 1 + LeadingAnswered(answers, i + 1)
  ELSE 0

\* C25: update builds e_ and J_ anew on every call: an update that follows
\* an update with the same robot state and the same answers leaves the e_
\* and J_ it found, and after any update that returned, e_ and J_ have one
\* row for each primitive answered in this call, whatever rows an earlier
\* update, complete or failed part-way, had left.
C25_UpdateIdempotent ==
  (SDFUpdateCalled /\ last.outcome = "returned" /\ def_.fk_solver_) =>
    /\ last.repeated => last.same_rows
    /\ Len(def_.e_) = LeadingAnswered(last.answers, 1)
    /\ Len(def_.J_) = LeadingAnswered(last.answers, 1)
    /\ last.ret = 0 => Len(def_.e_) = Len(def_.primitives_)

\* a complete update of two primitives that repeats the update before it
C25_Witness ==
  /\ SDFUpdateCalled /\ last.outcome = "returned" /\ last.ret = 0
  /\ last.repeated
  /\ Len(def_.e_) = 2 /\ Len(def_.J_) = 2


----------------------------------------------------------------------------
(* Further properties of Task::init, under Spec and SpecFirst *)

\* the stages of init that are calls, in their order, after the two tests
\* of the parameter lists
InitStages == <<"constructDefinition", "constructDynamics", "def.initialize", "dyn.init">>

\* the stages init ran are the first ones of InitStages, all but the last
\* of them succeeded, and the code is that of the last one when it failed
StagesInOrder ==
  LET n == Len(last.calls) IN
  /\ n \in 1..Len(InitStages)
  /\ \A i \in 1..n : last.calls[i].fn = InitStages[i] /\ ~ last.calls[i].thrown
  /\ \A i \in 1..(n - 1) : last.calls[i].rc = 0
  /\ IF last.calls[n].rc /= 0 THEN last.ret = -(2 + n)
     ELSE n = Len(InitStages) /\ last.ret = 0

\* C26: init returns the code of the first stage that fails: -1 for empty
\* def_params, -2 for empty dyn_params, then -3 .. -6 for the construction
\* of the definition, the construction of the dynamics, Definition.initialize
\* and Dynamics.init; no stage after the failing one is run, and 0 is
\* returned only when all succeeded.
C26_FirstFailingStage ==
  InitCalled =>
    /\ last.outcome = "returned"
    /\ IF last.def_params = << >> THEN last.ret = -1 /\ last.calls = << >>
       ELSE IF last.dyn_params = << >> THEN last.ret = -2 /\ last.calls = << >>
       ELSE StagesInOrder


\* C27: a TDefGeomProj or TDefGeomAlign list of a type token and two
\* primitive types constructs a Definition exactly for the ordered pairs of
\* the list of its type; for every other ordered pair, the reverse of a
\* listed one included, the construction fails and the call constructs no
\* Definition.
C27_AcceptedPairs ==
  LET proj == {<<"point", "point">>, <<"point", "line">>, <<"point", "plane">>,
               <<"point", "box">>, <<"point", "cylinder">>, <<"point", "sphere">>,
               <<"line", "line">>, <<"sphere", "plane">>, <<"sphere", "sphere">>,
               <<"frame", "frame">>}
      align == {<<"line", "line">>, <<"line", "plane">>, <<"line", "cylinder">>,
                <<"line", "sphere">>, <<"frame", "frame">>}
      p == last.def_params
  IN (/\ InitCalled /\ last.dyn_params /= << >>
      /\ Len(p) = 3 /\ p[1] \in {"TDefGeomProj", "TDefGeomAlign"}) =>
       IF <<p[2], p[3]>> \in (IF p[1] = "TDefGeomProj" THEN proj ELSE align)
       THEN /\ last.calls[1] = Called("constructDefinition", 0)
            /\ ~ last.def_same
            /\ def_.pair = <<p[2], p[3]>>
            /\ def_.class = (IF p[1] = "TDefGeomProj" THEN "TaskGeometricProjection"
                             ELSE "TaskGeometricAlignment")
       ELSE /\ last.outcome = "returned" /\ last.ret = -3
            /\ last.calls = <<Called("constructDefinition", -1)>>
            /\ last.def_same

\* the reverse of an accepted pair was refused and the Task has no Definition
C27_Witness ==
  /\ InitCalled /\ last.def_params = <<"TDefGeomProj", "line", "point">>
  /\ last.dyn_params /= << >>
  /\ last.ret = -3 /\ def_ = NoObj


\* C28: an init that fails, whatever the cause, leaves primitives_,
\* n_dimensions_ and task_types_ as they were before the call.
C28_FailedInitKeepsLists ==
  (SDFInitCalled /\ last.ret /= 0) => last.same_lists


\* the names of a parameter list, after its type token
Names(parameters) == [i \in 1..(Len(parameters) - 1) |-> parameters[i + 1]]

\* C29: after every init that succeeded, the first or a later one on the
\* object, task_types_, primitives_ and n_dimensions_ have the size of the
\* parameter list less one, and primitives_ holds the names of this list
\* and nothing of an earlier one.
C29_ListsMatchParameters ==
  (SDFInitCalled /\ last.ret = 0) =>
    /\ Len(def_.task_types_) = Len(last.parameters) - 1
    /\ Len(def_.primitives_) = Len(last.parameters) - 1
    /\ def_.n_dimensions_ = Len(last.parameters) - 1
    /\ def_.primitives_ = Names(last.parameters)

\* an init with one name succeeded on a definition that still has the two
\* rows of an update made after an earlier init with two names
C29_Witness ==
  /\ SDFInitCalled /\ last.ret = 0
  /\ last.parameters = <<"TDefAvoidCollisionsSDF", "s1">>
  /\ Len(def_.e_) = 2


\* the update stopped at a primitive without a call to the FK solver or to
\* the collision checker for it: the branch of primitiveForwardKinematics
\* for a primitive that is neither point nor sphere
StoppedWithoutQuery ==
  /\ last.ret /= 0
  /\ \A k \in 1..Len(last.queries) :
       last.queries[k].primitive /= LeadingAnswered(last.answers, 1) + 1

\* C30: every primitive a definition holds is a point or a sphere, so no
\* update stops in the branch of primitiveForwardKinematics for other types,
\* and no valid gradient gets the 0 that appendTaskFunction gives them.
C30_OnlyPointsAndSpheres ==
  /\ \A i \in 1..Len(def_.primitives_) :
       GeometricPrimitiveMap[def_.primitives_[i]].type \in {"point", "sphere"}
  /\ (SDFUpdateCalled /\ last.outcome = "returned" /\ def_.fk_solver_) =>
       /\ ~ StoppedWithoutQuery
       /\ \A i \in 1..Len(def_.e_) :
            last.answers[i].gradients = <<"valid">> => def_.e_[i] /= "0"

\* an init naming a box of the registry was refused by both lookups, on a
\* definition that an earlier init and update had given a row
C30_Witness ==
  /\ SDFInitCalled /\ last.parameters = <<"TDefAvoidCollisionsSDF", "b1">>
  /\ last.ret = -2
  /\ def_.primitives_ = << >>
  /\ Len(def_.e_) > 0

====
